---------------------------- MODULE Spec2Model ----------------------------
(***************************************************************************)
(* A state-machine model of the seed-data generation pipeline              *)
(* (src/src/main.py and src/src/generators/*.py, src/src/utils/base.py).   *)
(*                                                                         *)
(* Time.  A datetime is an integer number of ticks since 2025-05-11        *)
(* 00:00:00 (a Sunday), TicksPerSec ticks to the second, so that the       *)
(* sub-second part strftime drops is represented.  A formatted timestamp   *)
(* ("%Y-%m-%d %H:%M:%S") is a number of whole seconds, a formatted date    *)
(* ("%Y-%m-%d") a number of whole days since the same origin.  Null is     *)
(* Python's None.                                                          *)
(*                                                                         *)
(* Randomness.  Every call of the random module is a nondeterministic      *)
(* choice (\E) over a sample of the values the call can return.  The       *)
(* variable scope names the families of draws a behaviour explores in      *)
(* full; a draw outside the scope takes a representative value.            *)
(***************************************************************************)
EXTENDS Integers, Sequences, FiniteSets, TLC

VARIABLES
    pc,        \* position of the running function
    scope,     \* families of random draws explored in full
    cfg,       \* the configuration: VOLUMES of utils/config.py
    data,      \* collection name -> sequence of generated records
    loc,       \* local variables of the running generator
    nextGid,   \* identity allocator
    err        \* the exception that ended the run, or "none"

vars == <<pc, scope, cfg, data, loc, nextGid, err>>

Null == -1

-----------------------------------------------------------------------------
(* Bounds of the model *)

TicksPerSec == 2      \* sub-second resolution of a datetime
MaxTasks    == 4      \* largest configured VOLUMES["tasks"] explored

-----------------------------------------------------------------------------
(* utils/config.py *)

Sec     == TicksPerSec
Minute  == 60 * Sec
Hour    == 60 * Minute
Day     == 24 * Hour

HISTORY_DAYS == 180
OriginDays   == 240          \* 2026-01-06 is day 240 after 2025-05-11
NOW           == OriginDays * Day + 22 * Hour
HISTORY_START == NOW - HISTORY_DAYS * Day
HISTORY_END   == NOW

\* date.weekday(): Monday is 0; day 0 (2025-05-11) is a Sunday
Weekday(d) == (d + 6) % 7

SectionCount(archetype) ==
    CASE archetype = "sprint"  -> 5
      [] archetype = "kanban"  -> 6
      [] archetype = "launch"  -> 6
      [] archetype = "ongoing" -> 4
      [] archetype = "bugs"    -> 6
      [] OTHER                 -> 6

-----------------------------------------------------------------------------
(* Sequences *)

Range(s) == { s[k] : k \in DOMAIN s }
Last(s)  == s[Len(s)]
Min2(a, b) == IF a <= b THEN a ELSE b
Max2(a, b) == IF a >= b THEN a ELSE b

\* all orderings of k distinct elements of s: random.sample(s, k)
Samples(s, k) ==
    { q \in [1..k -> DOMAIN s] : \A a, b \in 1..k : a # b => q[a] # q[b] }

-----------------------------------------------------------------------------
(* The random stream *)

\* the values explored for one draw: all of `full` when one of the families
\* is in the scope, the representative values `dflt` otherwise
Draw(families, full, dflt) == IF families \cap scope # {} THEN full ELSE dflt

\* random.randint(a, b), explored at its two ends
RandInt(families, a, b) == Draw(families, {a, b}, {a})

\* random.random() < p for 0 < p < 1: probability_check, both outcomes
ProbabilityCheck(families, dflt) == Draw(families, {TRUE, FALSE}, {dflt})

\* random.choice(s) of a list that is not empty
RandomChoice(families, s) == Draw(families, Range(s), {s[1]})

\* random.random() in [0, 1), in thousandths
RandomFraction(families) == Draw(families, {0, 999}, {500})

-----------------------------------------------------------------------------
(* utils/base.py *)

FormatTimestamp(dt) == dt \div Sec
ParseTimestamp(s)   == s * Sec
FormatDate(dt)      == IF dt = Null THEN Null ELSE dt \div Day
ParseDate(d)        == d * Day
\* dt.replace(hour=0, minute=0, second=0, microsecond=0)
Midnight(dt)        == (dt \div Day) * Day

\* start + timedelta(seconds=delta.total_seconds() * progress), progress in
\* thousandths
InterpolateTimestamp(start, end, progress) ==
    start + ((end - start) \div 1000) * progress

\* Every instant of [start, end) can be returned: a candidate of any weekday
\* passes the rejection test for a small enough second draw.
RandomTimestamp(families, start, end) ==
    { InterpolateTimestamp(start, end, f) : f \in RandomFraction(families) }

\* max(min_days, min(max_days, lognormvariate(mean, sigma))), as a timedelta
LogNormalDays(families) == Draw(families, {Day \div 10, Day, 30 * Day}, {Day})

CalculateCompletionTimestamp(created_at) ==
    { LET c1 == created_at + d
          c2 == IF c1 > NOW THEN NOW - back * Hour ELSE c1
      IN  IF c2 <= created_at THEN created_at + fwd * Hour ELSE c2 :
        d \in LogNormalDays({"time"}),
        back \in RandInt({"time"}, 1, 48),
        fwd \in RandInt({"time"}, 2, 24) }

DueDateCategories ==
    {"within_week", "within_month", "one_to_three_months", "no_due_date", "overdue"}

DaysAhead(category) ==
    CASE category = "within_week"         -> RandInt({"date"}, 1, 7)
      [] category = "within_month"        -> RandInt({"date"}, 8, 30)
      [] category = "one_to_three_months" -> RandInt({"date"}, 31, 90)
      [] category = "overdue"             -> { 0 - k : k \in RandInt({"date"}, 1, 14) }
      [] OTHER                            -> RandInt({"date"}, 1, 30)

\* the weekend nudge of generate_due_date: Saturday back, Sunday forward
MoveOffWeekend(due_date, nudge) ==
    IF Weekday(due_date \div Day) >= 5 /\ nudge
    THEN IF Weekday(due_date \div Day) = 5 THEN due_date - Day ELSE due_date + Day
    ELSE due_date

GenerateDueDate(created_at, project_due_date) ==
    UNION { IF category = "no_due_date" THEN {Null} ELSE
            { LET due == Midnight(created_at) + days * Day
                  clamped == IF project_due_date # Null /\ due > project_due_date
                             THEN project_due_date - back * Day ELSE due
              IN  MoveOffWeekend(clamped, nudge) :
                days \in DaysAhead(category),
                back \in RandInt({"date"}, 0, 7),
                nudge \in ProbabilityCheck({"date"}, TRUE) } :
        category \in Draw({"date"}, DueDateCategories, {"within_week"}) }

\* mutant: the start date is put after the due date
GenerateStartDateLate(due_date) ==
    IF due_date = Null THEN {Null}
    ELSE Draw({"date"}, {Null}, {}) \cup
         { due_date + k * Day : k \in RandInt({"date"}, 1, 14) }

GenerateStartDate(due_date) ==
    IF due_date = Null THEN {Null}
    ELSE Draw({"date"}, {Null}, {}) \cup
         { due_date - k * Day : k \in RandInt({"date"}, 1, 14) }

\* progress of timestamp i of a wave, in thousandths.  The exponential and
\* logistic shapes (math.exp) are not computed: their value at i/count is a
\* point of [0, 1) for a suitable count, explored at the two ends.
WaveProgress(families, i, count, growth_curve) ==
    { Max2(0, Min2(1000, base + jitter)) :
        base \in (IF growth_curve = "linear"
                  THEN {(1000 * i) \div Max2(count - 1, 1)}
                  ELSE Draw(families, {0, 999}, {500})),
        jitter \in Draw({"wave"} \cup (families \cap {"project_time"}), {-50, 50}, {0}) }

\* sorted(timestamps)
Sorted(s) == SortSeq(s, LAMBDA a, b : a < b)

GenerateCreationWave(families, count, start, end, growth_curve) ==
    LET TsDraws(i) ==
            UNION { RandomTimestamp(families,
                                    InterpolateTimestamp(start, end, pr) - 12 * Hour,
                                    InterpolateTimestamp(start, end, pr) + 12 * Hour) :
                    pr \in WaveProgress(families, i, count, growth_curve) }
        All == UNION { TsDraws(i) : i \in 0..(count - 1) }
    IN  { Sorted(ts) : ts \in { f \in [1..count -> All] :
                                  \A k \in 1..count : f[k] \in TsDraws(k - 1) } }

\* generate_gid(): a fresh key; uniqueness is the allocator's contract
GenerateGid == nextGid

-----------------------------------------------------------------------------
(* generators/tasks.py: generate_tasks *)

ScratchKeys == {"_project_gid", "_section_gid", "_team_gid", "_created_dt"}

\* members_by_team.get(team_gid, [])
MembersByTeam(team_gid) ==
    LET ms == SelectSeq(data.team_memberships, LAMBDA m : m.team_gid = team_gid)
    IN  [k \in DOMAIN ms |-> ms[k].user_gid]

\* mutant: the users of every workspace
UsersOfAnyWorkspace(ws_gid) == data.users

\* users_by_workspace.get(ws_gid, [])
UsersByWorkspace(ws_gid) ==
    SelectSeq(data.users, LAMBDA u : u.workspace_gid = ws_gid)

\* sections_by_project.get(project_gid, [])
SectionsByProject(project_gid) ==
    SelectSeq(data.sections, LAMBDA x : x.project_gid = project_gid)

NumBaseTasks ==
    \* int(num_tasks * (1 - subtask_ratio)); the ratio is in hundredths, and
    \* only ratios the float product represents exactly are configured
    (cfg.tasks * (100 - cfg.subtask_ratio)) \div 100

NoLocals ==
    [num_base_tasks |-> 0, num_subtasks |-> 0, base_creation_times |-> <<>>,
     i |-> 0, parents |-> <<>>, p |-> 0, subtask_count |-> 0,
     num_children |-> 0, j |-> 0]

\* lines 121-134: the split of the total and the creation wave
TasksBegin ==
    /\ pc = "generate_tasks"
    /\ \E wave \in GenerateCreationWave({"time"}, NumBaseTasks,
                                        HISTORY_START + 14 * Day,
                                        HISTORY_END - 1 * Day, "exponential") :
         loc' = [NoLocals EXCEPT !.num_base_tasks = NumBaseTasks,
                                 !.num_subtasks = cfg.tasks - NumBaseTasks,
                                 !.base_creation_times = wave]
    /\ pc' = "tasks_phase1"
    /\ UNCHANGED <<scope, cfg, data, nextGid, err>>

\* mutant: any user, of whatever team and workspace
BaseAssigneeAnyUser(project) == {Null} \cup { u.gid : u \in Range(data.users) }

\* lines 186-197: assignee selection of a base task
BaseAssignee(project) ==
    LET team_members == MembersByTeam(project.team_gid)
        ws_users == UsersByWorkspace(project.workspace_gid)
    IN  Draw({"refs"}, {Null}, {}) \cup
        (IF team_members # <<>> THEN Draw({"refs"}, Range(team_members), {team_members[1]})
         ELSE IF ws_users # <<>> THEN { u.gid : u \in Range(ws_users) }
         ELSE {Null})

\* mutant: any section of the project, whatever the completion
BaseSectionAny(project, completed) ==
    { x.gid : x \in Range(SectionsByProject(project.gid)) }

\* lines 246-256: section placement of a base task
BaseSection(project, completed) ==
    LET proj_sections == SectionsByProject(project.gid)
        active_sections == IF Len(proj_sections) > 1
                           THEN SubSeq(proj_sections, 1, Len(proj_sections) - 1)
                           ELSE proj_sections
    IN  IF proj_sections = <<>> THEN {Null}
        ELSE IF completed = 1 THEN {Last(proj_sections).gid}
        ELSE Draw({"refs"}, { x.gid : x \in Range(active_sections) },
                  {active_sections[1].gid})

\* mutant: the wave timestamp is kept as it is
BaseCreatedAtUnrepaired(project, wave_ts) == {wave_ts}

\* lines 175-181: the creation time of base task i, repaired forward
BaseCreatedAt(project, wave_ts) ==
    IF wave_ts < ParseTimestamp(project.created_at)
    THEN { ParseTimestamp(project.created_at) + h * Hour : h \in RandInt({"time"}, 1, 48) }
    ELSE {wave_ts}

\* lines 224-228: a milestone's start date
MilestoneStart(is_milestone, start_on, due_on) ==
    IF is_milestone = 1 /\ start_on # Null /\ due_on # Null THEN due_on ELSE start_on

Flag(b) == IF b THEN 1 ELSE 0

\* lines 169-286: one iteration of the base-task loop
TasksPhase1 ==
    /\ pc = "tasks_phase1"
    /\ loc.i < loc.num_base_tasks
    /\ IF data.projects = <<>>
       THEN \* random.choice of an empty list
            /\ err' = "IndexError"
            /\ pc' = "raised"
            /\ UNCHANGED <<data, loc, nextGid>>
       ELSE \E project \in RandomChoice({"time", "date", "refs", "count"}, data.projects) :
            \E created_at \in BaseCreatedAt(project, loc.base_creation_times[loc.i + 1]) :
            \E assignee_gid \in BaseAssignee(project) :
            \E due_on \in GenerateDueDate(created_at,
                              IF project.due_date = Null THEN Null
                              ELSE ParseDate(project.due_date)) :
            \E start \in GenerateStartDate(due_on) :
            \E milestone \in ProbabilityCheck({"date", "refs", "count"}, FALSE) :
            \E done \in ProbabilityCheck({"time", "refs"}, TRUE) :
            \E completed_at \in (IF done THEN CalculateCompletionTimestamp(created_at)
                                 ELSE {Null}) :
            \E section_gid \in BaseSection(project, Flag(done)) :
              LET task ==
                    [gid |-> GenerateGid,
                     workspace_gid |-> project.workspace_gid,
                     assignee_gid |-> assignee_gid,
                     parent_task_gid |-> Null,
                     created_at |-> FormatTimestamp(created_at),
                     start_on |-> FormatDate(MilestoneStart(Flag(milestone), start, due_on)),
                     due_on |-> FormatDate(due_on),
                     completed_at |-> IF completed_at # Null
                                      THEN FormatTimestamp(completed_at) ELSE Null,
                     completed |-> Flag(done),
                     is_milestone |-> Flag(milestone),
                     _project_gid |-> project.gid,
                     _section_gid |-> section_gid,
                     _team_gid |-> project.team_gid,
                     _created_dt |-> created_at]
                  membership ==
                    [workspace_gid |-> project.workspace_gid,
                     task_gid |-> task.gid,
                     project_gid |-> project.gid,
                     section_gid |-> section_gid]
              IN  /\ data' = [data EXCEPT
                                !.tasks = Append(@, task),
                                !.task_project_memberships = Append(@, membership)]
                  /\ nextGid' = nextGid + 1
                  /\ loc' = [loc EXCEPT !.i = @ + 1]
                  /\ UNCHANGED <<pc, err>>
    /\ UNCHANGED <<scope, cfg>>

\* mutant: milestones are not filtered out of the parents
EligibleParentsAll == [k \in 1..Len(data.tasks) |-> k]

\* [t for t in base_tasks if not t.get("is_milestone")], as positions
EligibleParents ==
    SelectSeq([k \in 1..Len(data.tasks) |-> k], LAMBDA k : data.tasks[k].is_milestone = 0)

\* random.sample(eligible_parents, min(len(eligible_parents), num_subtasks))
SampleParents(eligible, k) ==
    LET all == { [a \in 1..k |-> eligible[q[a]]] : q \in Samples(eligible, k) }
    IN  Draw({"refs", "count"}, all, {SubSeq(eligible, 1, k)})

\* lines 288-301: end of phase 1, choice of the parents
TasksPhase2Begin ==
    /\ pc = "tasks_phase1"
    /\ loc.i = loc.num_base_tasks
    /\ LET eligible == EligibleParents
       IN  IF eligible # <<>> /\ loc.num_subtasks > 0
           THEN IF Min2(Len(eligible), loc.num_subtasks \div 2) = 0
                THEN \* num_subtasks // 0 in subtasks_per_parent
                     /\ err' = "ZeroDivisionError"
                     /\ pc' = "raised"
                     /\ UNCHANGED loc
                ELSE /\ \E parents \in SampleParents(eligible,
                                         Min2(Len(eligible), loc.num_subtasks)) :
                          loc' = [loc EXCEPT !.parents = parents]
                     /\ pc' = "tasks_phase2"
                     /\ UNCHANGED err
           ELSE /\ pc' = "tasks_cleanup"
                /\ UNCHANGED <<loc, err>>
    /\ UNCHANGED <<scope, cfg, data, nextGid>>

\* lines 301-308: the next sampled parent and its number of children
TasksNextParent ==
    /\ pc = "tasks_phase2"
    /\ loc.j = loc.num_children
    /\ IF loc.p = Len(loc.parents) \/ loc.subtask_count >= loc.num_subtasks
       THEN /\ pc' = "tasks_cleanup"
            /\ UNCHANGED loc
       ELSE /\ \E n \in RandInt({"count"}, 1, Min2(4, loc.num_subtasks - loc.subtask_count)) :
                 loc' = [loc EXCEPT !.p = @ + 1, !.num_children = n, !.j = 0]
            /\ UNCHANGED pc
    /\ UNCHANGED <<scope, cfg, data, nextGid, err>>

\* lines 314-321: the creation time of a subtask, repaired backward
ChildCreatedAt(parent_created) ==
    { LET child_created == parent_created + h * Hour + m * Minute
      IN  IF child_created > NOW THEN NOW - back * Hour ELSE child_created :
        h \in RandInt({"time"}, 1, 72),
        m \in RandInt({"time"}, 0, 59),
        back \in RandInt({"time"}, 1, 24) }

\* lines 334-343: the due date of a subtask
ChildDueOn(parent) ==
    IF parent.due_on # Null
    THEN { ParseDate(parent.due_on) - k * Day : k \in RandInt({"date"}, 0, 3) }
    ELSE {Null}

\* lines 356-361: the assignee of a subtask
ChildAssignee(parent) ==
    LET team_members == MembersByTeam(parent._team_gid)
    IN  (IF team_members # <<>>
         THEN Draw({"refs"}, Range(team_members), {team_members[1]}) ELSE {})
        \cup Draw({"refs"}, {parent.assignee_gid},
                  IF team_members # <<>> THEN {} ELSE {parent.assignee_gid})

\* mutant: the subtask is put in no section instead of its parent's
ChildMembershipNoSection(parent, subtask) ==
    [workspace_gid |-> parent.workspace_gid,
     task_gid |-> subtask.gid,
     project_gid |-> parent._project_gid,
     section_gid |-> Null]

\* lines 379-385: the membership row of a subtask
ChildMembership(parent, subtask) ==
    [workspace_gid |-> parent.workspace_gid,
     task_gid |-> subtask.gid,
     project_gid |-> parent._project_gid,
     section_gid |-> parent._section_gid]

\* lines 310-387: one iteration of the children loop
TasksChild ==
    /\ pc = "tasks_phase2"
    /\ loc.j < loc.num_children
    /\ loc.subtask_count < loc.num_subtasks
    /\ LET parent == data.tasks[loc.parents[loc.p]]
       IN  \E child_created \in ChildCreatedAt(parent._created_dt) :
           \E due_on \in ChildDueOn(parent) :
           \E done \in ProbabilityCheck({"time", "refs"}, TRUE) :
           \E completed_at \in (IF done THEN CalculateCompletionTimestamp(child_created)
                                ELSE {Null}) :
           \E assignee_gid \in ChildAssignee(parent) :
             LET subtask ==
                   [gid |-> GenerateGid,
                    workspace_gid |-> parent.workspace_gid,
                    assignee_gid |-> assignee_gid,
                    parent_task_gid |-> parent.gid,
                    created_at |-> FormatTimestamp(child_created),
                    start_on |-> Null,
                    due_on |-> FormatDate(due_on),
                    completed_at |-> IF completed_at # Null
                                     THEN FormatTimestamp(completed_at) ELSE Null,
                    completed |-> Flag(done),
                    is_milestone |-> 0]
             IN  /\ data' = [data EXCEPT
                               !.tasks = Append(@, subtask),
                               !.task_project_memberships =
                                   Append(@, ChildMembership(parent, subtask))]
                 /\ nextGid' = nextGid + 1
                 /\ loc' = [loc EXCEPT !.j = @ + 1, !.subtask_count = @ + 1]
    /\ UNCHANGED <<pc, scope, cfg, err>>

\* mutant: the cleanup loop deletes nothing
StripNothing(task) ==
    task

\* del task[key] for every key that starts with "_"
StripScratch(task) ==
    [k \in (DOMAIN task) \ ScratchKeys |-> task[k]]

\* lines 389-395: the scratch keys are removed and the two lists returned
TasksCleanup ==
    /\ pc = "tasks_cleanup"
    /\ data' = [data EXCEPT !.tasks = [k \in DOMAIN @ |-> StripScratch(@[k])]]
    /\ pc' = "tasks_done"
    /\ UNCHANGED <<scope, cfg, loc, nextGid, err>>

GenerateTasks ==
    \/ TasksBegin
    \/ TasksPhase1
    \/ TasksPhase2Begin
    \/ TasksNextParent
    \/ TasksChild
    \/ TasksCleanup

-----------------------------------------------------------------------------
(* The collections of a run *)

Collections ==
    {"workspaces", "users", "workspace_memberships", "teams", "team_memberships",
     "portfolios", "goals", "projects", "project_templates", "sections",
     "project_briefs", "tasks", "task_project_memberships", "stories",
     "attachments", "tags", "task_tags", "task_dependencies", "task_followers",
     "likes", "custom_field_definitions", "custom_field_options",
     "project_custom_field_settings", "portfolio_custom_field_settings",
     "custom_field_values", "portfolio_custom_field_values", "status_updates",
     "portfolio_items"}

NoData == [c \in Collections |-> <<>>]

\* the sections generate_sections gives a project: one per template name
ProjectSections(project, first_gid) ==
    [k \in 1..SectionCount(project.archetype) |->
        [gid |-> first_gid + k - 1,
         workspace_gid |-> project.workspace_gid,
         project_gid |-> project.gid,
         order_index |-> k - 1]]

\* Two workspaces; users and teams dealt round-robin; every user in the one
\* team of its workspace; an early project with a due date and a late one
\* without.
UpstreamData ==
    LET ws_created == FormatTimestamp(HISTORY_START - 30 * Day)
        user(g, w) == [gid |-> g, workspace_gid |-> w,
                       created_at |-> FormatTimestamp(HISTORY_START + Day)]
        team(g, w) == [gid |-> g, workspace_gid |-> w,
                       created_at |-> FormatTimestamp(HISTORY_START - Day)]
        member(t, u, w) == [team_gid |-> t, user_gid |-> u, workspace_gid |-> w]
        early == HISTORY_START + 7 * Day
        late == HISTORY_END - 7 * Day + 11 * Hour
        p1 == [gid |-> 31, workspace_gid |-> 1, team_gid |-> 21, owner_gid |-> 11,
               archetype |-> "ongoing", current_status |-> "on_track",
               due_date |-> FormatDate(early + 14 * Day), archived |-> 0,
               created_at |-> FormatTimestamp(early)]
        p2 == [gid |-> 32, workspace_gid |-> 2, team_gid |-> 22, owner_gid |-> 12,
               archetype |-> "sprint", current_status |-> "at_risk",
               due_date |-> Null, archived |-> 0,
               created_at |-> FormatTimestamp(late)]
    IN  [NoData EXCEPT
           !.workspaces = << [gid |-> 1, created_at |-> ws_created],
                             [gid |-> 2, created_at |-> ws_created] >>,
           !.users = << user(11, 1), user(12, 2), user(13, 1) >>,
           !.teams = << team(21, 1), team(22, 2) >>,
           !.team_memberships = << member(21, 11, 1), member(21, 13, 1),
                                   member(22, 12, 2) >>,
           !.projects = << p1, p2 >>,
           !.sections = ProjectSections(p1, 41) \o ProjectSections(p2, 51)]

FirstTaskGid == 100

\* the subtask ratios explored, in hundredths
RatioDraws == {0, 25, 50, 75, 100}

Scopes == { {"time"}, {"date"}, {"refs"}, {"count"} }

Init ==
    /\ pc = "generate_tasks"
    /\ scope \in Scopes
    \* a total of 3 at ratio 0.5 is the smallest with a parent and subtasks
    /\ cfg \in [tasks : Draw({"count"}, 0..MaxTasks,
                             Draw({"refs"}, {MaxTasks}, {3})),
                subtask_ratio : Draw({"count"}, RatioDraws, {50})]
    /\ data = UpstreamData
    /\ loc = NoLocals
    /\ nextGid = FirstTaskGid
    /\ err = "none"

Next == GenerateTasks

Spec == Init /\ [][Next]_vars

-----------------------------------------------------------------------------
(* generators/dependencies.py: generate_task_dependencies *)

\* for _ in range(10)
MaxAttempts == 10

DependencyTypes == {"finish_to_start", "start_to_start", "finish_to_finish"}

\* mutant: every pair passes, whatever its dates
IsValidDependencyUnchecked(predecessor, successor, dep_type) == TRUE

\* parse_date gives None for an absent date; a datetime is always truthy
IsValidDependency(predecessor, successor, dep_type) ==
    LET pred_start == predecessor.start_on
        pred_due == predecessor.due_on
        succ_start == successor.start_on
        succ_due == successor.due_on
    IN  CASE dep_type = "finish_to_start" ->
               IF pred_due # Null /\ succ_start # Null
               THEN ParseDate(pred_due) <= ParseDate(succ_start) ELSE TRUE
          [] dep_type = "start_to_start" ->
               IF pred_start # Null /\ succ_start # Null
               THEN ParseDate(pred_start) <= ParseDate(succ_start) ELSE TRUE
          [] dep_type = "finish_to_finish" ->
               IF pred_due # Null /\ succ_due # Null
               THEN ParseDate(pred_due) <= ParseDate(succ_due) ELSE TRUE
          [] OTHER -> TRUE

\* mutant: a task may be drawn as its own predecessor
IsSelfPairNever(predecessor, successor) == FALSE

\* line 91
IsSelfPair(predecessor, successor) == predecessor.gid = successor.gid

\* lines 94-95: dep_key in existing_deps
IsExistingDep(existing_deps, predecessor, successor) ==
    <<predecessor.gid, successor.gid>> \in existing_deps

\* the keys of a dictionary that groups records by workspace, in the order
\* of their first record
RECURSIVE WorkspaceOrder(_)
WorkspaceOrder(records) ==
    IF records = <<>> THEN <<>>
    ELSE LET front == WorkspaceOrder(SubSeq(records, 1, Len(records) - 1))
             ws_gid == Last(records).workspace_gid
         IN  IF ws_gid \in Range(front) THEN front ELSE Append(front, ws_gid)

\* [t for t in ws_tasks if t.get("due_on") or t.get("start_on")]
DatedTasks(ws_gid) ==
    SelectSeq(data.tasks, LAMBDA t : /\ t.workspace_gid = ws_gid
                                  /\ (t.due_on # Null \/ t.start_on # Null))

NoDepLocals ==
    [workspace_order |-> <<>>, w |-> 0, dated_tasks |-> <<>>, s |-> 0,
     dep_type |-> "", attempt |-> 0, existing_deps |-> {}]

DepsBegin ==
    /\ pc = "generate_task_dependencies"
    /\ loc' = [NoDepLocals EXCEPT !.workspace_order = WorkspaceOrder(data.tasks),
                                  !.w = 1]
    /\ data' = [data EXCEPT !.task_dependencies = <<>>]
    /\ pc' = "deps_workspace"
    /\ UNCHANGED <<scope, cfg, nextGid, err>>

\* for ws_gid, ws_tasks in tasks_by_workspace.items(), and the return after it
DepsNextWorkspace ==
    /\ pc = "deps_workspace"
    /\ IF loc.w > Len(loc.workspace_order)
       THEN /\ pc' = "deps_done"
            /\ loc' = loc
       ELSE LET dated_tasks == DatedTasks(loc.workspace_order[loc.w])
            IN  IF Len(dated_tasks) < 2
                THEN /\ loc' = [loc EXCEPT !.w = @ + 1]
                     /\ pc' = pc
                ELSE /\ loc' = [loc EXCEPT !.dated_tasks = dated_tasks, !.s = 1]
                     /\ pc' = "deps_successor"
    /\ UNCHANGED <<scope, cfg, data, nextGid, err>>

\* weighted_choice_dict(DEPENDENCY_CONFIG["type_weights"]): every type when
\* the type draws are in the scope, the one type the scope names otherwise,
\* the first type when it names none
DependencyTypeDraws ==
    Draw({"type"}, DependencyTypes,
         IF DependencyTypes \cap scope = {} THEN {"finish_to_start"}
         ELSE DependencyTypes \cap scope)

\* for successor in dated_tasks: the 8% gate and the type draw
DepsNextSuccessor ==
    /\ pc = "deps_successor"
    /\ IF loc.s > Len(loc.dated_tasks)
       THEN /\ loc' = [loc EXCEPT !.w = @ + 1]
            /\ pc' = "deps_workspace"
       ELSE \E gate \in ProbabilityCheck({"shape", "type", "deps"}, TRUE) :
              IF ~gate
              THEN /\ loc' = [loc EXCEPT !.s = @ + 1]
                   /\ pc' = pc
              ELSE \E dep_type \in DependencyTypeDraws :
                   /\ loc' = [loc EXCEPT !.dep_type = dep_type, !.attempt = 0]
                   /\ pc' = "deps_attempt"
    /\ UNCHANGED <<scope, cfg, data, nextGid, err>>

\* mutant: an accepted candidate does not end the loop (no break)
DepsAttemptNoBreak ==
    /\ pc = "deps_attempt"
    /\ IF loc.attempt >= MaxAttempts
       THEN /\ loc' = [loc EXCEPT !.s = @ + 1]
            /\ pc' = "deps_successor"
            /\ data' = data
       ELSE \E predecessor \in RandomChoice({"shape", "type", "deps"}, loc.dated_tasks) :
            LET successor == loc.dated_tasks[loc.s]
                retry == [loc EXCEPT !.attempt = @ + 1]
            IN  IF \/ IsSelfPair(predecessor, successor)
                   \/ IsExistingDep(loc.existing_deps, predecessor, successor)
                   \/ ~IsValidDependency(predecessor, successor, loc.dep_type)
                THEN /\ loc' = retry
                     /\ UNCHANGED <<pc, data>>
                ELSE /\ data' = [data EXCEPT !.task_dependencies = Append(@,
                                   [workspace_gid |-> loc.workspace_order[loc.w],
                                    predecessor_gid |-> predecessor.gid,
                                    successor_gid |-> successor.gid,
                                    type |-> loc.dep_type])]
                     /\ loc' = [loc EXCEPT
                                  !.existing_deps = @ \cup {<<predecessor.gid, successor.gid>>},
                                  !.attempt = @ + 1]
                     /\ pc' = pc
    /\ UNCHANGED <<scope, cfg, nextGid, err>>

\* one pass of for _ in range(10)
DepsAttempt ==
    /\ pc = "deps_attempt"
    /\ IF loc.attempt >= MaxAttempts
       THEN /\ loc' = [loc EXCEPT !.s = @ + 1]
            /\ pc' = "deps_successor"
            /\ data' = data
       ELSE \E predecessor \in RandomChoice({"shape", "type", "deps"}, loc.dated_tasks) :
            LET successor == loc.dated_tasks[loc.s]
                retry == [loc EXCEPT !.attempt = @ + 1]
            IN  IF \/ IsSelfPair(predecessor, successor)
                   \/ IsExistingDep(loc.existing_deps, predecessor, successor)
                   \/ ~IsValidDependency(predecessor, successor, loc.dep_type)
                THEN /\ loc' = retry
                     /\ UNCHANGED <<pc, data>>
                ELSE /\ data' = [data EXCEPT !.task_dependencies = Append(@,
                                   [workspace_gid |-> loc.workspace_order[loc.w],
                                    predecessor_gid |-> predecessor.gid,
                                    successor_gid |-> successor.gid,
                                    type |-> loc.dep_type])]
                     /\ loc' = [loc EXCEPT
                                  !.existing_deps = @ \cup {<<predecessor.gid, successor.gid>>},
                                  !.s = @ + 1]
                     /\ pc' = "deps_successor"
    /\ UNCHANGED <<scope, cfg, nextGid, err>>

GenerateTaskDependencies ==
    \/ DepsBegin
    \/ DepsNextWorkspace
    \/ DepsNextSuccessor
    \/ DepsAttempt

\* the tasks handed over: MaxDepTasks cleaned task records with distinct gids
MaxDepTasks == 3

\* the date shapes generate_tasks writes: no dates, a due date alone, or a
\* start date not after the due date, over two days
DateShapes ==
    LET d0 == FormatDate(NOW - Day)
        d1 == FormatDate(NOW)
    IN  Draw({"shape"}, { <<Null, Null>>, <<Null, d0>>, <<d0, d0>>, <<d1, d1>> },
                        { <<d0, d0>> })

DatedTask(gid, ws_gid, dates) ==
    [gid |-> gid, workspace_gid |-> ws_gid, assignee_gid |-> Null,
     parent_task_gid |-> Null,
     created_at |-> FormatTimestamp(NOW - 30 * Day),
     start_on |-> dates[1], due_on |-> dates[2],
     completed_at |-> Null, completed |-> 0, is_milestone |-> 0]

\* every input shape under one dependency type, or every type draw under
\* the representative shapes
DepScopes == { {"shape", dep_type} : dep_type \in DependencyTypes } \cup { {"type"} }

InitDeps ==
    /\ pc = "generate_task_dependencies"
    /\ scope \in DepScopes
    /\ cfg = [tasks |-> MaxDepTasks, subtask_ratio |-> 0]
    /\ \E ws \in { f \in [1..MaxDepTasks -> {1, 2}] :
                       \A k \in 1..MaxDepTasks :
                          IF k = 1 THEN f[k] = 1 ELSE f[k - 1] <= f[k] } :
       \E dates \in [1..MaxDepTasks -> DateShapes] :
          data = [UpstreamData EXCEPT !.tasks =
                    [k \in 1..MaxDepTasks |->
                        DatedTask(FirstTaskGid + k - 1, ws[k], dates[k])]]
    /\ loc = NoDepLocals
    /\ nextGid = FirstTaskGid + MaxDepTasks
    /\ err = "none"

NextDeps == GenerateTaskDependencies

SpecDeps == InitDeps /\ [][NextDeps]_vars

-----------------------------------------------------------------------------
(* main.py: the pipeline, one generator call after the other.  Of a record
   the gid, the reference fields and the fields a later generator reads are
   kept. *)

\* seqs[1] \o ... \o seqs[n]
RECURSIVE Concat(_)
Concat(seqs) ==
    IF seqs = <<>> THEN <<>>
    ELSE Concat(SubSeq(seqs, 1, Len(seqs) - 1)) \o Last(seqs)

\* every way to take one element of each set of a sequence of sets
RECURSIVE Product(_)
Product(opts) ==
    IF opts = <<>> THEN {<<>>}
    ELSE { Append(f, x) : f \in Product(SubSeq(opts, 1, Len(opts) - 1)),
                          x \in Last(opts) }

\* the lists a loop can build whose pass k appends one of the lists opts[k]
Outputs(opts) == { Concat(c) : c \in Product(opts) }

\* an exception leaves the generator and ends the run
Raise(e) ==
    /\ err' = e
    /\ pc' = "raised"
    /\ UNCHANGED <<data, loc, nextGid>>

\* s[i % len(s)], i counted from 0
RoundRobin(s, i) == s[(i % Len(s)) + 1]

\* mutant: the records of every workspace
InAnyWorkspace(records, ws_gid) == records

\* the records of a workspace: the value a by-workspace dictionary holds
InWorkspace(records, ws_gid) ==
    SelectSeq(records, LAMBDA r : r.workspace_gid = ws_gid)

\* random.sample(s, k), explored at two ends: the first k elements in order
\* and the last k in reverse
SampleDraws(families, s, k) ==
    Draw(families, { SubSeq(s, 1, k), [a \in 1..k |-> s[Len(s) + 1 - a]] },
                   { SubSeq(s, 1, k) })

\* random.choice(s)["gid"] if s else None
ChoiceOrNone(families, s) ==
    IF s = <<>> THEN {Null} ELSE { x.gid : x \in RandomChoice(families, s) }

GenerateWorkspaces ==
    /\ pc = "generate_workspaces"
    /\ data' = [data EXCEPT !.workspaces =
                  [k \in 1..cfg.workspaces |->
                      [gid |-> nextGid + k - 1,
                       \* the company name, and the index after the first
                       domain |-> 20 + k,
                       created_at |-> FormatTimestamp(HISTORY_START - 30 * Day)]]]
    /\ nextGid' = nextGid + cfg.workspaces
    /\ pc' = "generate_users"
    /\ UNCHANGED <<scope, cfg, loc, err>>

\* max_attempts = 10
MaxEmailAttempts == 10

\* first.last in lower case, a string as the sequence of its characters: 10
\* the dot, 11.. the letters; "a.b" begins "a.bb" as martin begins
\* martinez.  A digit is its number, 0 the at sign, 21.. a domain.
FullNames == { <<11, 10, 12>>, <<11, 10, 12, 12>>, <<13, 10, 12>> }

\* first.last{suffix}@domain, no suffix written for 0
Email(name, suffix, domain) ==
    name \o (IF suffix = 0 THEN <<>> ELSE <<suffix>>) \o <<0, domain>>

\* mutant: the suffix counts nothing
EmailSuffixZero(used_emails, name) == 0

\* len([e for e in used_emails if e.startswith(first.last)])
EmailSuffix(used_emails, name) ==
    Cardinality({ e \in used_emails :
                    Len(e) >= Len(name) /\ SubSeq(e, 1, Len(name)) = name })

\* lines 84-99: the retry loop from one attempt on; the email the user gets
\* and the emails used after it
RECURSIVE EmailAttempts(_, _, _)
EmailAttempts(attempt, used_emails, domain) ==
    UNION { LET email == Email(name, 0, domain)
                suffixed == Email(name, EmailSuffix(used_emails, name) + 1, domain)
            IN  IF email \notin used_emails
                THEN { [email |-> email, used_emails |-> used_emails \cup {email}] }
                ELSE IF suffixed \notin used_emails
                THEN { [email |-> suffixed, used_emails |-> used_emails \cup {suffixed}] }
                ELSE IF attempt = MaxEmailAttempts
                THEN { [email |-> suffixed, used_emails |-> used_emails] }
                ELSE EmailAttempts(attempt + 1, used_emails, domain) :
            name \in Draw({"names"}, FullNames, {<<11, 10, 12>>}) }

\* the emails of the first num_users users, one after the other
RECURSIVE UserEmails(_)
UserEmails(num_users) ==
    IF num_users = 0 THEN { [emails |-> <<>>, used_emails |-> {}] }
    ELSE UNION { { [emails |-> Append(before.emails, drawn.email),
                    used_emails |-> drawn.used_emails] :
                   drawn \in EmailAttempts(1, before.used_emails,
                                 RoundRobin(data.workspaces, num_users - 1).domain) } :
                 before \in UserEmails(num_users - 1) }

GenerateUsers ==
    /\ pc = "generate_users"
    /\ IF cfg.users > 0 /\ data.workspaces = <<>>
       THEN Raise("ZeroDivisionError")
       ELSE \E creation_times \in GenerateCreationWave({"time"}, cfg.users,
                                      HISTORY_START, HISTORY_END, "s_curve"),
               drawn \in UserEmails(cfg.users) :
            LET user(i) == [gid |-> nextGid + i,
                            workspace_gid |-> RoundRobin(data.workspaces, i).gid,
                            email |-> drawn.emails[i + 1],
                            created_at |-> FormatTimestamp(creation_times[i + 1])]
            IN  /\ data' = [data EXCEPT
                              !.users = [k \in 1..cfg.users |-> user(k - 1)],
                              !.workspace_memberships =
                                  [k \in 1..cfg.users |->
                                      [workspace_gid |-> user(k - 1).workspace_gid,
                                       user_gid |-> user(k - 1).gid]]]
                /\ nextGid' = nextGid + cfg.users
                /\ pc' = "generate_teams"
                /\ UNCHANGED <<loc, err>>
    /\ UNCHANGED <<scope, cfg>>

\* len(TEAM_NAMES)
TeamNamesCount == 14

GenerateTeams ==
    /\ pc = "generate_teams"
    /\ LET num_teams == Min2(cfg.teams, TeamNamesCount)
       IN  IF num_teams > 0 /\ data.workspaces = <<>>
           THEN Raise("ZeroDivisionError")
           ELSE \E creation_times \in GenerateCreationWave({"team_time"}, num_teams,
                                          HISTORY_START - 25 * Day, HISTORY_START,
                                          "linear") :
                /\ data' = [data EXCEPT !.teams =
                              [k \in 1..num_teams |->
                                  [gid |-> nextGid + k - 1,
                                   workspace_gid |-> RoundRobin(data.workspaces, k - 1).gid,
                                   created_at |-> FormatTimestamp(creation_times[k])]]]
                /\ nextGid' = nextGid + num_teams
                /\ pc' = "generate_team_memberships"
                /\ UNCHANGED <<loc, err>>
    /\ UNCHANGED <<scope, cfg>>

\* lines 151-185: the teams a user joins, one weighted draw after the other
\* without replacement; every weight is positive
TeamDraws(ws_teams) ==
    UNION { SampleDraws({"memberships"}, ws_teams, k) :
            k \in RandInt({"memberships"}, 1, Min2(3, Len(ws_teams))) }

GenerateTeamMemberships ==
    /\ pc = "generate_team_memberships"
    /\ LET order == WorkspaceOrder(data.users)
           grouped == Concat([w \in DOMAIN order |->
                         IF InWorkspace(data.teams, order[w]) = <<>> THEN <<>>
                         ELSE UsersByWorkspace(order[w])])
           rows(user) ==
               { [j \in DOMAIN selected_teams |->
                     [team_gid |-> selected_teams[j].gid,
                      user_gid |-> user.gid,
                      workspace_gid |-> user.workspace_gid]] :
                 selected_teams \in TeamDraws(InWorkspace(data.teams, user.workspace_gid)) }
       IN  \E memberships \in Outputs([k \in DOMAIN grouped |-> rows(grouped[k])]) :
              data' = [data EXCEPT !.team_memberships = memberships]
    /\ pc' = "generate_portfolios"
    /\ UNCHANGED <<scope, cfg, loc, nextGid, err>>

GeneratePortfolios ==
    /\ pc = "generate_portfolios"
    /\ IF cfg.portfolios > 0 /\ data.workspaces = <<>>
       THEN Raise("ZeroDivisionError")
       ELSE \E creation_times \in GenerateCreationWave({"time"}, cfg.portfolios,
                                      HISTORY_START - 20 * Day,
                                      HISTORY_START + 30 * Day, "linear") :
            LET rows(i) ==
                  LET ws_gid == RoundRobin(data.workspaces, i).gid
                      ws_users == UsersByWorkspace(ws_gid)
                      senior_pool == SubSeq(ws_users, 1, Max2(1, Len(ws_users) \div 3))
                  IN  { << [gid |-> nextGid + i,
                            workspace_gid |-> ws_gid,
                            owner_gid |-> owner_gid,
                            created_at |-> FormatTimestamp(creation_times[i + 1])] >> :
                        owner_gid \in ChoiceOrNone({"portfolios"}, senior_pool) }
            IN  /\ \E portfolios \in Outputs([k \in 1..cfg.portfolios |-> rows(k - 1)]) :
                      data' = [data EXCEPT !.portfolios = portfolios]
                /\ nextGid' = nextGid + cfg.portfolios
                /\ pc' = "generate_goals"
                /\ UNCHANGED <<loc, err>>
    /\ UNCHANGED <<scope, cfg>>

GenerateGoals ==
    /\ pc = "generate_goals"
    /\ IF cfg.goals > 0 /\ data.workspaces = <<>>
       THEN Raise("ZeroDivisionError")
       ELSE \E creation_times \in GenerateCreationWave({"time"}, cfg.goals,
                                      HISTORY_START, NOW - 30 * Day, "linear") :
            LET rows(i) ==
                  LET ws_gid == RoundRobin(data.workspaces, i).gid
                  IN  { << [gid |-> nextGid + i,
                            workspace_gid |-> ws_gid,
                            owner_gid |-> owner_gid,
                            created_at |-> FormatTimestamp(creation_times[i + 1])] >> :
                        owner_gid \in ChoiceOrNone({"goals"}, UsersByWorkspace(ws_gid)) }
            IN  /\ \E goals \in Outputs([k \in 1..cfg.goals |-> rows(k - 1)]) :
                      data' = [data EXCEPT !.goals = goals]
                /\ nextGid' = nextGid + cfg.goals
                /\ pc' = "generate_projects"
                /\ UNCHANGED <<loc, err>>
    /\ UNCHANGED <<scope, cfg>>

Archetypes == {"sprint", "kanban", "launch", "ongoing", "bugs"}

\* lines 139-145: the due date of a project
ProjectDueDate(created_at) ==
    Draw({"date"}, {Null}, {}) \cup
    { LET due_date == created_at + k * Day
      IN  IF due_date > NOW + 90 * Day THEN NOW + back * Day ELSE due_date :
        k \in RandInt({"date"}, 14, 84), back \in RandInt({"date"}, 7, 60) }

GenerateProjects ==
    /\ pc = "generate_projects"
    /\ IF cfg.projects > 0 /\ data.workspaces = <<>>
       THEN Raise("ZeroDivisionError")
       ELSE \E creation_times \in GenerateCreationWave({"project_time"}, cfg.projects,
                                      HISTORY_START + 7 * Day,
                                      HISTORY_END - 7 * Day, "s_curve") :
            LET rows(i) ==
                  LET ws_gid == RoundRobin(data.workspaces, i).gid
                      ws_teams == InWorkspace(data.teams, ws_gid)
                      created_at == creation_times[i + 1]
                  IN  IF ws_teams = <<>> THEN { <<>> }
                      ELSE UNION {
                             { << [gid |-> nextGid + i,
                                   workspace_gid |-> ws_gid,
                                   team_gid |-> team.gid,
                                   owner_gid |-> owner_gid,
                                   archetype |-> archetype,
                                   current_status |-> current_status,
                                   due_date |-> FormatDate(due_date),
                                   archived |-> archived,
                                   created_at |-> FormatTimestamp(created_at)] >> :
                               owner_gid \in (IF MembersByTeam(team.gid) = <<>> THEN {Null}
                                              ELSE RandomChoice({"projects"},
                                                                MembersByTeam(team.gid))),
                               archetype \in Draw({"archetype"}, Archetypes, {"sprint"}),
                               current_status \in Draw({"status"},
                                   {"on_track", "at_risk", "off_track"}, {"on_track"}),
                               due_date \in ProjectDueDate(created_at),
                               archived \in Draw({"archived"}, {0, 1}, {0}) } :
                             team \in RandomChoice({"projects"}, ws_teams) }
            IN  /\ \E projects \in Outputs([k \in 1..cfg.projects |-> rows(k - 1)]) :
                      data' = [data EXCEPT !.projects = projects]
                /\ nextGid' = nextGid + cfg.projects
                /\ pc' = "generate_project_templates"
                /\ UNCHANGED <<loc, err>>
    /\ UNCHANGED <<scope, cfg>>

\* len(template_names)
TemplateNamesCount == 8

GenerateProjectTemplates ==
    /\ pc = "generate_project_templates"
    /\ LET num_templates == Min2(cfg.project_templates, TemplateNamesCount)
       IN  IF num_templates > 0 /\ data.teams = <<>>
           THEN Raise("ZeroDivisionError")
           ELSE /\ data' = [data EXCEPT !.project_templates =
                              [k \in 1..num_templates |->
                                  [gid |-> nextGid + k - 1,
                                   team_gid |-> RoundRobin(data.teams, k - 1).gid,
                                   created_at |-> FormatTimestamp(
                                       HISTORY_START + (k - 1) * 5 * Day)]]]
                /\ nextGid' = nextGid + num_templates
                /\ pc' = "generate_sections"
                /\ UNCHANGED <<loc, err>>
    /\ UNCHANGED <<scope, cfg>>

\* the longest list of SECTION_TEMPLATES
MaxSectionCount == 6

GenerateSections ==
    /\ pc = "generate_sections"
    /\ data' = [data EXCEPT !.sections =
                  Concat([k \in DOMAIN data.projects |->
                             ProjectSections(data.projects[k],
                                             nextGid + (k - 1) * MaxSectionCount)])]
    /\ nextGid' = nextGid + Len(data.projects) * MaxSectionCount
    /\ pc' = "generate_project_briefs"
    /\ UNCHANGED <<scope, cfg, loc, err>>

GenerateProjectBriefs ==
    /\ pc = "generate_project_briefs"
    /\ LET rows(k) ==
             LET project == data.projects[k]
             IN  { IF gate
                   THEN << [gid |-> nextGid + k - 1,
                            workspace_gid |-> project.workspace_gid,
                            project_gid |-> project.gid,
                            created_at |-> project.created_at] >>
                   ELSE <<>> :
                   gate \in ProbabilityCheck({"briefs"}, TRUE) }
       IN  \E briefs \in Outputs([k \in DOMAIN data.projects |-> rows(k)]) :
              data' = [data EXCEPT !.project_briefs = briefs]
    /\ nextGid' = nextGid + Len(data.projects)
    /\ pc' = "generate_tasks"
    /\ UNCHANGED <<scope, cfg, loc, err>>

\* random.sample(s, random.randint(1, min(cap, len(s)))) of a list that is
\* not empty
RandomSample(families, s, cap) ==
    UNION { SampleDraws(families, s, k) : k \in RandInt(families, 1, Min2(cap, Len(s))) }

\* min(num_stories, 10)
StoryCap == 10

\* the stories of one task
StoryRows(task, first_gid) ==
    LET task_created == ParseTimestamp(task.created_at)
        ws_users == UsersByWorkspace(task.workspace_gid)
        days == (NOW - task_created) \div Day
        max_offset == Min2(30, IF days = 0 THEN 1 ELSE days) * Day
        story(i) ==
            { << [gid |-> first_gid + i,
                  workspace_gid |-> task.workspace_gid,
                  task_gid |-> task.gid,
                  created_by_gid |-> author_gid,
                  type |-> story_type,
                  created_at |-> FormatTimestamp(story_time)] >> :
              author_gid \in ChoiceOrNone({"story_authors"}, ws_users),
              story_type \in Draw({"story_types"}, {"comment", "system"}, {"comment"}),
              story_time \in RandomTimestamp({"story_time"},
                                 task_created + i * 4 * Hour,
                                 Min2(task_created + max_offset, NOW)) }
    IN  UNION { Outputs([j \in 1..num_stories |-> story(j - 1)]) :
                num_stories \in Draw({"story_count"}, {0, 1, StoryCap}, {1}) }

GenerateStories ==
    /\ pc = "tasks_done"
    /\ \E stories \in Outputs([k \in DOMAIN data.tasks |->
                                  StoryRows(data.tasks[k], nextGid + (k - 1) * StoryCap)]) :
          data' = [data EXCEPT !.stories = stories]
    /\ nextGid' = nextGid + Len(data.tasks) * StoryCap
    /\ pc' = "generate_attachments"
    /\ UNCHANGED <<scope, cfg, loc, err>>

\* lines 59-98: the attachments of one task
TaskAttachments(task, first_gid) ==
    LET task_created == ParseTimestamp(task.created_at)
        ws_users == UsersByWorkspace(task.workspace_gid)
        attachment(j) ==
            { << [gid |-> first_gid + j - 1,
                  workspace_gid |-> task.workspace_gid,
                  parent_task_gid |-> task.gid,
                  parent_brief_gid |-> Null,
                  created_at |-> FormatTimestamp(attachment_time),
                  created_by_gid |-> creator] >> :
              attachment_time \in RandomTimestamp({"attachment_time"}, task_created,
                                     Min2(task_created + 14 * Day, NOW)),
              creator \in ChoiceOrNone({"task_creators"}, ws_users) }
    IN  UNION { IF ~gate THEN { <<>> }
                ELSE UNION { Outputs([j \in 1..num_attachments |-> attachment(j)]) :
                             num_attachments \in RandInt({"task_attachments"}, 1, 3) } :
                gate \in ProbabilityCheck({"task_attachments"}, TRUE) }

\* lines 100-149: the attachments of one project brief
BriefAttachments(brief, first_gid) ==
    LET ws_users == UsersByWorkspace(brief.workspace_gid)
        attachment(j) ==
            { << [gid |-> first_gid + j - 1,
                  workspace_gid |-> brief.workspace_gid,
                  parent_task_gid |-> Null,
                  parent_brief_gid |-> brief.gid,
                  created_at |-> brief.created_at,
                  created_by_gid |-> creator] >> :
              creator \in ChoiceOrNone({"brief_creators"}, ws_users) }
    IN  UNION { IF ~gate THEN { <<>> }
                ELSE UNION { Outputs([j \in 1..num_attachments |-> attachment(j)]) :
                             num_attachments \in RandInt({"brief_attachments"}, 1, 2) } :
                gate \in ProbabilityCheck({"brief_attachments"}, TRUE) }

GenerateAttachments ==
    /\ pc = "generate_attachments"
    /\ LET briefs_from == nextGid + 3 * Len(data.tasks)
       IN  \E on_tasks \in Outputs([k \in DOMAIN data.tasks |->
                              TaskAttachments(data.tasks[k], nextGid + (k - 1) * 3)]),
              on_briefs \in Outputs([k \in DOMAIN data.project_briefs |->
                              BriefAttachments(data.project_briefs[k],
                                               briefs_from + (k - 1) * 2)]) :
              /\ data' = [data EXCEPT !.attachments = on_tasks \o on_briefs]
              /\ nextGid' = briefs_from + 2 * Len(data.project_briefs)
    /\ pc' = "generate_tags"
    /\ UNCHANGED <<scope, cfg, loc, err>>

\* len(TAG_TEMPLATES)
TagTemplatesCount == 25

GenerateTags ==
    /\ pc = "generate_tags"
    /\ LET num_tags == Min2(cfg.tags, TagTemplatesCount)
       IN  /\ data' = [data EXCEPT !.tags =
                         Concat([w \in DOMAIN data.workspaces |->
                                   [j \in 1..num_tags |->
                                       [gid |-> nextGid + (w - 1) * num_tags + j - 1,
                                        workspace_gid |-> data.workspaces[w].gid]]])]
           /\ nextGid' = nextGid + Len(data.workspaces) * num_tags
    /\ pc' = "generate_task_tags"
    /\ UNCHANGED <<scope, cfg, loc, err>>

GenerateTaskTags ==
    /\ pc = "generate_task_tags"
    /\ LET rows(task) ==
             LET ws_tags == InWorkspace(data.tags, task.workspace_gid)
             IN  UNION { IF ~gate \/ ws_tags = <<>> THEN { <<>> }
                         ELSE { [j \in DOMAIN selected_tags |->
                                   [workspace_gid |-> task.workspace_gid,
                                    task_gid |-> task.gid,
                                    tag_gid |-> selected_tags[j].gid]] :
                                selected_tags \in RandomSample({"task_tags"}, ws_tags, 3) } :
                         gate \in ProbabilityCheck({"task_tags"}, TRUE) }
       IN  \E task_tags \in Outputs([k \in DOMAIN data.tasks |-> rows(data.tasks[k])]) :
              data' = [data EXCEPT !.task_tags = task_tags]
    /\ pc' = "generate_task_dependencies"
    /\ UNCHANGED <<scope, cfg, loc, nextGid, err>>

\* the rows a gated sample of a workspace's records gives one record: none
\* when the gate fails or the workspace has none
GatedSample(families, pool, cap) ==
    UNION { IF ~gate \/ pool = <<>> THEN { <<>> } ELSE RandomSample(families, pool, cap) :
            gate \in ProbabilityCheck(families, TRUE) }

GenerateTaskFollowers ==
    /\ pc = "deps_done"
    /\ LET rows(task) ==
             { LET kept == SelectSeq(selected_followers,
                                     LAMBDA user : user.gid # task.assignee_gid)
               IN  [j \in DOMAIN kept |->
                       [workspace_gid |-> task.workspace_gid,
                        task_gid |-> task.gid,
                        user_gid |-> kept[j].gid]] :
               selected_followers \in GatedSample({"followers"},
                                          UsersByWorkspace(task.workspace_gid), 4) }
       IN  \E followers \in Outputs([k \in DOMAIN data.tasks |-> rows(data.tasks[k])]) :
              data' = [data EXCEPT !.task_followers = followers]
    /\ pc' = "generate_likes"
    /\ UNCHANGED <<scope, cfg, loc, nextGid, err>>

\* A sample holds no user twice and no two tasks or stories share a gid, so
\* no key is met a second time.
GenerateLikes ==
    /\ pc = "generate_likes"
    /\ LET comment_stories == SelectSeq(data.stories, LAMBDA story : story.type = "comment")
           stories_from == nextGid + 5 * Len(data.tasks)
           on_task(task, first_gid) ==
               { [j \in DOMAIN likers |->
                     [gid |-> first_gid + j - 1,
                      workspace_gid |-> task.workspace_gid,
                      user_gid |-> likers[j].gid,
                      task_gid |-> task.gid,
                      story_gid |-> Null]] :
                 likers \in GatedSample({"task_likes"},
                                UsersByWorkspace(task.workspace_gid), 5) }
           on_story(story, first_gid) ==
               { [j \in DOMAIN likers |->
                     [gid |-> first_gid + j - 1,
                      workspace_gid |-> story.workspace_gid,
                      user_gid |-> likers[j].gid,
                      task_gid |-> Null,
                      story_gid |-> story.gid]] :
                 likers \in GatedSample({"story_likes"},
                                UsersByWorkspace(story.workspace_gid), 3) }
       IN  \E task_likes \in Outputs([k \in DOMAIN data.tasks |->
                                on_task(data.tasks[k], nextGid + (k - 1) * 5)]),
              story_likes \in Outputs([k \in DOMAIN comment_stories |->
                                on_story(comment_stories[k], stories_from + (k - 1) * 3)]) :
              /\ data' = [data EXCEPT !.likes = task_likes \o story_likes]
              /\ nextGid' = stories_from + 3 * Len(comment_stories)
    /\ pc' = "generate_custom_field_definitions"
    /\ UNCHANGED <<scope, cfg, loc, err>>

\* CUSTOM_FIELD_TEMPLATES: the type, the number of options and the word of
\* the name that generate_custom_field_values tests
CustomFieldTemplates ==
    << [name |-> "Priority",        type |-> "enum",   options |-> 4, word |-> ""],
       [name |-> "Story Points",    type |-> "number", options |-> 0, word |-> "Points"],
       [name |-> "Sprint",          type |-> "enum",   options |-> 4, word |-> ""],
       [name |-> "Status",          type |-> "enum",   options |-> 4, word |-> ""],
       [name |-> "Estimated Hours", type |-> "number", options |-> 0, word |-> "Hours"],
       [name |-> "Actual Hours",    type |-> "number", options |-> 0, word |-> "Hours"],
       [name |-> "Notes",           type |-> "text",   options |-> 0, word |-> ""],
       [name |-> "Review Status",   type |-> "enum",   options |-> 3, word |-> ""] >>

\* the gids one template takes: the field's and at most four options'
FieldGids == 5

GenerateCustomFieldDefinitions ==
    /\ pc = "generate_custom_field_definitions"
    /\ LET count == Len(CustomFieldTemplates)
           field_gid(w, t) == nextGid + ((w - 1) * count + t - 1) * FieldGids
           definition(w, t) ==
               [gid |-> field_gid(w, t),
                workspace_gid |-> data.workspaces[w].gid,
                name |-> CustomFieldTemplates[t].name,
                word |-> CustomFieldTemplates[t].word,
                resource_subtype |-> CustomFieldTemplates[t].type]
           options(w, t) ==
               [o \in 1..CustomFieldTemplates[t].options |->
                   [gid |-> field_gid(w, t) + o,
                    field_gid |-> field_gid(w, t),
                    workspace_gid |-> data.workspaces[w].gid]]
       IN  /\ data' = [data EXCEPT
                         !.custom_field_definitions =
                             Concat([w \in DOMAIN data.workspaces |->
                                        [t \in 1..count |-> definition(w, t)]]),
                         !.custom_field_options =
                             Concat([w \in DOMAIN data.workspaces |->
                                        Concat([t \in 1..count |-> options(w, t)])])]
           /\ nextGid' = nextGid + Len(data.workspaces) * count * FieldGids
    /\ pc' = "generate_project_custom_field_settings"
    /\ UNCHANGED <<scope, cfg, loc, err>>

GenerateProjectCustomFieldSettings ==
    /\ pc = "generate_project_custom_field_settings"
    /\ LET rows(project) ==
             LET ws_fields == InWorkspace(data.custom_field_definitions,
                                          project.workspace_gid)
             IN  UNION { IF ~gate \/ ws_fields = <<>> THEN { <<>> }
                         ELSE { [i \in DOMAIN selected_fields |->
                                   [workspace_gid |-> project.workspace_gid,
                                    project_gid |-> project.gid,
                                    custom_field_gid |-> selected_fields[i].gid,
                                    is_important |-> IF i = 1 THEN 1 ELSE 0]] :
                                selected_fields \in UNION {
                                    SampleDraws({"project_sample"}, ws_fields, num_fields) :
                                    num_fields \in RandInt({"project_fields"}, 2,
                                                           Min2(5, Len(ws_fields))) } } :
                         gate \in ProbabilityCheck({"project_fields"}, TRUE) }
       IN  \E settings \in Outputs([k \in DOMAIN data.projects |-> rows(data.projects[k])]) :
              data' = [data EXCEPT !.project_custom_field_settings = settings]
    /\ pc' = "generate_portfolio_custom_field_settings"
    /\ UNCHANGED <<scope, cfg, loc, nextGid, err>>

GeneratePortfolioCustomFieldSettings ==
    /\ pc = "generate_portfolio_custom_field_settings"
    /\ LET rows(portfolio) ==
             { [i \in DOMAIN selected_fields |->
                   [workspace_gid |-> portfolio.workspace_gid,
                    portfolio_gid |-> portfolio.gid,
                    custom_field_gid |-> selected_fields[i].gid]] :
               selected_fields \in GatedSample({"portfolio_fields"},
                                       InWorkspace(data.custom_field_definitions,
                                                   portfolio.workspace_gid), 3) }
       IN  \E settings \in Outputs([k \in DOMAIN data.portfolios |->
                                       rows(data.portfolios[k])]) :
              data' = [data EXCEPT !.portfolio_custom_field_settings = settings]
    /\ pc' = "generate_custom_field_values"
    /\ UNCHANGED <<scope, cfg, loc, nextGid, err>>

\* mutant: the first definition, whatever the gid
FieldByGidFirst(field_gid) == SubSeq(data.custom_field_definitions, 1, 1)

\* field_by_gid.get(field_gid): the definition with that gid, if any
FieldByGid(field_gid) ==
    SelectSeq(data.custom_field_definitions, LAMBDA f : f.gid = field_gid)

\* lines 227-253 and 294-313: the value rows of one field of one holder; a
\* text by its place in the list of texts, a number in tenths
FieldValueRows(families, holder, holder_key, field_gid, of_task) ==
    LET found == FieldByGid(field_gid)
        field == found[1]
        field_opts == SelectSeq(data.custom_field_options,
                                LAMBDA opt : opt.field_gid = field_gid)
        value(text, number, option) ==
            << [f \in {"workspace_gid", holder_key, "field_gid", "text_value",
                       "number_value", "enum_option_gid"} |->
                  CASE f = "workspace_gid" -> holder.workspace_gid
                    [] f = holder_key -> holder.gid
                    [] f = "field_gid" -> field_gid
                    [] f = "text_value" -> text
                    [] f = "number_value" -> number
                    [] f = "enum_option_gid" -> option] >>
        texts == IF of_task THEN RandInt(families, 1, 5) ELSE {1}
        numbers == IF ~of_task THEN RandInt(families, 10, 1000)
                   ELSE CASE field.word = "Points" -> Draw(families, {10, 130}, {10})
                          [] field.word = "Hours" -> RandInt(families, 5, 400)
                          [] OTHER -> RandInt(families, 10, 1000)
    IN  UNION { IF ~gate \/ found = <<>> THEN { <<>> }
                ELSE CASE field.resource_subtype = "text" ->
                            { value(text, Null, Null) : text \in texts }
                       [] field.resource_subtype = "number" ->
                            { value(Null, number, Null) : number \in numbers }
                       [] field.resource_subtype = "enum" ->
                            { value(Null, Null, option) :
                              option \in ChoiceOrNone(families, field_opts) }
                       [] OTHER -> { value(Null, Null, Null) } :
                gate \in ProbabilityCheck(families, TRUE) }

GenerateCustomFieldValues ==
    /\ pc = "generate_custom_field_values"
    /\ LET rows(task) ==
             LET memberships == SelectSeq(data.task_project_memberships,
                                          LAMBDA m : m.task_gid = task.gid)
                 project_fields ==
                     IF memberships = <<>> THEN <<>>
                     ELSE SelectSeq(data.project_custom_field_settings,
                              LAMBDA setting : setting.project_gid = Last(memberships).project_gid)
             IN  Outputs([i \in DOMAIN project_fields |->
                             FieldValueRows({"field_values"}, task, "task_gid",
                                            project_fields[i].custom_field_gid, TRUE)])
       IN  \E values \in Outputs([k \in DOMAIN data.tasks |-> rows(data.tasks[k])]) :
              data' = [data EXCEPT !.custom_field_values = values]
    /\ pc' = "generate_portfolio_custom_field_values"
    /\ UNCHANGED <<scope, cfg, loc, nextGid, err>>

GeneratePortfolioCustomFieldValues ==
    /\ pc = "generate_portfolio_custom_field_values"
    /\ LET rows(portfolio) ==
             LET portfolio_fields ==
                     SelectSeq(data.portfolio_custom_field_settings,
                               LAMBDA setting : setting.portfolio_gid = portfolio.gid)
             IN  Outputs([i \in DOMAIN portfolio_fields |->
                             FieldValueRows({"portfolio_values"}, portfolio, "portfolio_gid",
                                            portfolio_fields[i].custom_field_gid, FALSE)])
       IN  \E values \in Outputs([k \in DOMAIN data.portfolios |->
                                     rows(data.portfolios[k])]) :
              data' = [data EXCEPT !.portfolio_custom_field_values = values]
    /\ pc' = "generate_status_updates"
    /\ UNCHANGED <<scope, cfg, loc, nextGid, err>>

\* the updates a loop with a break leaves: those before the first pass
\* whose time is after NOW
BeforeBreak(passes) ==
    SubSeq(passes, 1, Cardinality({ i \in DOMAIN passes :
                                      \A j \in 1..i : passes[j].update_time <= NOW }))

StatusTypes == {"on_track", "at_risk", "off_track"}

\* lines 62-110, 113-148 and 151-192: the updates of one project, portfolio
\* or goal
StatusUpdateRows(parent, parent_key, first_gid, passes) ==
    LET update(i) ==
            [f \in {"gid", "workspace_gid", "author_gid", "status_type", "created_at",
                    "parent_project_gid", "parent_portfolio_gid", "parent_goal_gid"} |->
               CASE f = "gid" -> first_gid + i - 1
                 [] f = "workspace_gid" -> parent.workspace_gid
                 [] f = "author_gid" -> passes[i].author.gid
                 [] f = "status_type" -> passes[i].status_type
                 [] f = "created_at" -> FormatTimestamp(passes[i].update_time)
                 [] f = parent_key -> parent.gid
                 [] OTHER -> Null]
    IN  [i \in DOMAIN BeforeBreak(passes) |-> update(i)]

ProjectStatusUpdates(project, first_gid) ==
    LET ws_users == UsersByWorkspace(project.workspace_gid)
        proj_created == ParseTimestamp(project.created_at)
        days_active == (NOW - proj_created) \div Day
        pass(i, num_updates) ==
            { [update_time |-> proj_created + ((i + 1) * 7 + jitter) * Day,
               author |-> author,
               status_type |-> status_type] :
              jitter \in RandInt({"status_time"}, -2, 2),
              author \in RandomChoice({"status_authors"}, ws_users),
              status_type \in (IF i = num_updates - 1 THEN {project.current_status}
                               ELSE Draw({"status_types"}, StatusTypes, {"on_track"})) }
    IN  IF project.archived # 0 THEN { <<>> }
        ELSE UNION { IF ~gate \/ ws_users = <<>> THEN { <<>> }
                     ELSE UNION {
                            LET num_updates == IF days_active < 7 THEN 1 ELSE drawn
                            IN  { StatusUpdateRows(project, "parent_project_gid",
                                                   first_gid, passes) :
                                  passes \in Product([j \in 1..num_updates |->
                                                         pass(j - 1, num_updates)]) } :
                            drawn \in RandInt({"status_count"}, 1, 4) } :
                     gate \in ProbabilityCheck({"status_gate"}, TRUE) }

PortfolioStatusUpdates(portfolio, first_gid) ==
    LET ws_users == UsersByWorkspace(portfolio.workspace_gid)
        port_created == ParseTimestamp(portfolio.created_at)
        pass(i) ==
            { [update_time |-> port_created + ((i + 1) * 14 + jitter) * Day,
               author |-> author,
               status_type |-> status_type] :
              jitter \in RandInt({"status_time"}, -3, 3),
              author \in RandomChoice({"status_authors"}, ws_users),
              status_type \in Draw({"status_types"}, {"on_track", "at_risk"}, {"on_track"}) }
    IN  UNION { IF ~gate \/ ws_users = <<>> THEN { <<>> }
                ELSE UNION { { StatusUpdateRows(portfolio, "parent_portfolio_gid",
                                                first_gid, passes) :
                               passes \in Product([j \in 1..num_updates |-> pass(j - 1)]) } :
                             num_updates \in RandInt({"status_count"}, 1, 2) } :
                gate \in ProbabilityCheck({"status_gate"}, TRUE) }

GoalStatusUpdates(goal, first_gid) ==
    LET ws_users == UsersByWorkspace(goal.workspace_gid)
        goal_created == ParseTimestamp(goal.created_at)
        times == { LET update_time == goal_created + ahead * Day
                   IN  IF update_time > NOW THEN NOW - back * Day ELSE update_time :
                   ahead \in RandInt({"status_time"}, 14, 45),
                   back \in RandInt({"status_time"}, 1, 7) }
    IN  UNION { IF ~gate \/ ws_users = <<>> THEN { <<>> }
                ELSE { StatusUpdateRows(goal, "parent_goal_gid", first_gid,
                                        << [update_time |-> update_time,
                                            author |-> author,
                                            status_type |-> "on_track"] >>) :
                       update_time \in times,
                       author \in RandomChoice({"status_authors"}, ws_users) } :
                gate \in ProbabilityCheck({"status_gate"}, TRUE) }

GenerateStatusUpdates ==
    /\ pc = "generate_status_updates"
    /\ LET portfolios_from == nextGid + 4 * Len(data.projects)
           goals_from == portfolios_from + 2 * Len(data.portfolios)
       IN  \E on_projects \in Outputs([k \in DOMAIN data.projects |->
                                 ProjectStatusUpdates(data.projects[k],
                                                      nextGid + (k - 1) * 4)]),
              on_portfolios \in Outputs([k \in DOMAIN data.portfolios |->
                                 PortfolioStatusUpdates(data.portfolios[k],
                                                        portfolios_from + (k - 1) * 2)]),
              on_goals \in Outputs([k \in DOMAIN data.goals |->
                                 GoalStatusUpdates(data.goals[k], goals_from + k - 1)]) :
              /\ data' = [data EXCEPT !.status_updates =
                                          on_projects \o on_portfolios \o on_goals]
              /\ nextGid' = goals_from + Len(data.goals)
    /\ pc' = "generate_portfolio_items"
    /\ UNCHANGED <<scope, cfg, loc, err>>

\* lines 63-101: the items of one portfolio
PortfolioItemRows(portfolio) ==
    LET port_created == ParseTimestamp(portfolio.created_at)
        ws_projects == InWorkspace(data.projects, portfolio.workspace_gid)
        other_portfolios ==
            SelectSeq(InWorkspace(data.portfolios, portfolio.workspace_gid),
                      LAMBDA p : p.gid # portfolio.gid)
        item(project_gid, portfolio_gid, days) ==
            [portfolio_gid |-> portfolio.gid,
             workspace_gid |-> portfolio.workspace_gid,
             linked_project_gid |-> project_gid,
             linked_portfolio_gid |-> portfolio_gid,
             created_at |-> FormatTimestamp(port_created + days * Day)]
        project_items ==
            IF ws_projects = <<>> THEN { <<>> }
            ELSE UNION { UNION { Outputs([j \in 1..num_projects |->
                                    { << item(selected_projects[j].gid, Null, days) >> :
                                      days \in RandInt({"item_time"}, 1, 7) }]) :
                                 selected_projects \in SampleDraws({"portfolio_items"},
                                                           ws_projects, num_projects) } :
                         num_projects \in RandInt({"portfolio_items"}, 3,
                                                  Min2(8, Len(ws_projects))) }
        portfolio_items ==
            UNION { IF ~gate \/ other_portfolios = <<>> THEN { <<>> }
                    ELSE { << item(Null, linked_portfolio.gid, days) >> :
                           linked_portfolio \in RandomChoice({"portfolio_items"},
                                                             other_portfolios),
                           days \in RandInt({"item_time"}, 1, 14) } :
                    gate \in ProbabilityCheck({"portfolio_items"}, TRUE) }
    IN  { a \o b : a \in project_items, b \in portfolio_items }

\* random.randint(3, min(8, len(ws_projects))) raises ValueError for an
\* empty range
GeneratePortfolioItems ==
    /\ pc = "generate_portfolio_items"
    /\ IF \E k \in DOMAIN data.portfolios :
            Len(InWorkspace(data.projects, data.portfolios[k].workspace_gid)) \in {1, 2}
       THEN Raise("ValueError")
       ELSE /\ \E items \in Outputs([k \in DOMAIN data.portfolios |->
                                       PortfolioItemRows(data.portfolios[k])]) :
                  data' = [data EXCEPT !.portfolio_items = items]
            /\ pc' = "main_done"
            /\ UNCHANGED <<loc, nextGid, err>>
    /\ UNCHANGED <<scope, cfg>>

\* VOLUMES of the modelled runs.  In the first both workspaces get users and
\* teams, each three projects, and the first two portfolios.  The others have
\* no workspace, one workspace, no team, or two projects for a workspace with
\* a portfolio.
MainVolumes ==
    LET volumes == [workspaces |-> 2, users |-> 3, teams |-> 3, portfolios |-> 3,
                    goals |-> 2, projects |-> 6, project_templates |-> 1, tasks |-> 3,
                    subtask_ratio |-> 50, tags |-> 2]
    IN  Draw({"volumes"}, { volumes,
                            [volumes EXCEPT !.workspaces = 0],
                            [volumes EXCEPT !.workspaces = 1],
                            [volumes EXCEPT !.teams = 0],
                            [volumes EXCEPT !.projects = 4] },
                          { volumes })

\* the families of draws explored in full, one family a run
MainScopes ==
    { {family} : family \in
        {"volumes", "names", "memberships", "portfolios", "goals", "projects", "archived", "briefs",
         "refs", "story_count", "story_authors", "story_types", "story_time",
         "task_attachments", "task_creators", "attachment_time", "brief_attachments",
         "brief_creators", "task_tags", "deps", "followers", "task_likes", "story_likes",
         "project_fields", "project_sample", "portfolio_fields", "field_values",
         "portfolio_values", "status_gate", "status_count", "status_authors",
         "status_types", "status_time", "portfolio_items", "item_time",
         "team_time"} }

InitMain ==
    /\ pc = "generate_workspaces"
    /\ scope \in MainScopes
    /\ cfg \in MainVolumes
    /\ data = NoData
    /\ loc = NoLocals
    /\ nextGid = 1
    /\ err = "none"

NextMain ==
    \/ GenerateWorkspaces
    \/ GenerateUsers
    \/ GenerateTeams
    \/ GenerateTeamMemberships
    \/ GeneratePortfolios
    \/ GenerateGoals
    \/ GenerateProjects
    \/ GenerateProjectTemplates
    \/ GenerateSections
    \/ GenerateProjectBriefs
    \/ GenerateTasks
    \/ GenerateStories
    \/ GenerateAttachments
    \/ GenerateTags
    \/ GenerateTaskTags
    \/ GenerateTaskDependencies
    \/ GenerateTaskFollowers
    \/ GenerateLikes
    \/ GenerateCustomFieldDefinitions
    \/ GenerateProjectCustomFieldSettings
    \/ GeneratePortfolioCustomFieldSettings
    \/ GenerateCustomFieldValues
    \/ GeneratePortfolioCustomFieldValues
    \/ GenerateStatusUpdates
    \/ GeneratePortfolioItems

SpecMain == InitMain /\ [][NextMain]_vars

-----------------------------------------------------------------------------
(* Properties of generate_tasks *)

Returned == pc = "tasks_done"

Tasks    == Range(data.tasks)
Subtasks == { t \in Tasks : t.parent_task_gid # Null }
BaseTasks == { t \in Tasks : t.parent_task_gid = Null }
TasksWithGid(g) == { t \in Tasks : t.gid = g }
RowsOfTask(g) == { k \in DOMAIN data.task_project_memberships :
                     data.task_project_memberships[k].task_gid = g }

\* C1: after generate_tasks returns, the parent of every subtask was created
\* no later than the subtask.
C1_ParentCreatedFirst ==
    Returned =>
        \A t \in Subtasks : \A parent \in TasksWithGid(t.parent_task_gid) :
            parent.created_at <= t.created_at

\* C2: every task with a completion time has created_at <= completed_at <= NOW.
C2_CompletedWithinLifetime ==
    Returned =>
        \A t \in Tasks :
            t.completed_at # Null =>
                /\ t.created_at <= t.completed_at
                /\ t.completed_at <= FormatTimestamp(NOW)

\* C3: a task with both a start date and a due date starts no later than it is
\* due, and a subtask has no start date.
C3_StartNotAfterDue ==
    \A t \in Tasks :
        /\ (t.start_on # Null /\ t.due_on # Null) => t.start_on <= t.due_on
        /\ t.parent_task_gid # Null => t.start_on = Null

C3_Witness ==
    /\ Returned
    /\ \E t \in BaseTasks : t.start_on # Null /\ t.due_on # Null /\ t.start_on < t.due_on
    /\ \E t \in BaseTasks : t.is_milestone = 1 /\ t.start_on # Null /\ t.start_on = t.due_on
    /\ Subtasks # {}

\* C5: generate_tasks returns exactly int(N * (1 - r)) base tasks and N minus
\* that many subtasks.
C5_ExactSplit ==
    Returned =>
        /\ Cardinality({ k \in DOMAIN data.tasks : data.tasks[k].parent_task_gid = Null })
             = NumBaseTasks
        /\ Cardinality({ k \in DOMAIN data.tasks : data.tasks[k].parent_task_gid # Null })
             = cfg.tasks - NumBaseTasks

\* C6: the parent of every subtask is a base task of the same output that is
\* no milestone and lies in the subtask's workspace; a subtask is no milestone
\* and no parent.
C6_ParentIsBaseTask ==
    \A t \in Subtasks :
        /\ t.is_milestone = 0
        /\ Cardinality(TasksWithGid(t.parent_task_gid)) = 1
        /\ \A parent \in TasksWithGid(t.parent_task_gid) :
              /\ parent.parent_task_gid = Null
              /\ parent.is_milestone = 0
              /\ parent.workspace_gid = t.workspace_gid
        /\ \A u \in Tasks : u.parent_task_gid # t.gid

C6_Witness ==
    /\ Returned
    /\ Subtasks # {}
    /\ \E t \in BaseTasks : t.is_milestone = 1
    /\ \E t, u \in BaseTasks : t.workspace_gid # u.workspace_gid

\* C7: every returned task has exactly one membership row, and the row of a
\* subtask names the project and the section of its parent's row.
C7_OneMembershipPerTask ==
    Returned =>
        /\ Len(data.task_project_memberships) = Len(data.tasks)
        /\ \A t \in Tasks : Cardinality(RowsOfTask(t.gid)) = 1
        /\ \A t \in Subtasks :
             \A k \in RowsOfTask(t.gid) : \A n \in RowsOfTask(t.parent_task_gid) :
                /\ data.task_project_memberships[k].project_gid
                     = data.task_project_memberships[n].project_gid
                /\ data.task_project_memberships[k].section_gid
                     = data.task_project_memberships[n].section_gid

C7_Witness ==
    /\ Returned
    /\ \E t \in Subtasks : \E k \in RowsOfTask(t.gid) :
          /\ data.task_project_memberships[k].section_gid # Null
          /\ data.task_project_memberships[k].section_gid \notin {41, 51}

-----------------------------------------------------------------------------
(* Properties of generate_task_dependencies *)

Dependencies == Range(data.task_dependencies)

\* the relevant dates of a dependency type: predecessor's, successor's
RelevantDates(predecessor, successor, dep_type) ==
    CASE dep_type = "finish_to_start"  -> <<predecessor.due_on, successor.start_on>>
      [] dep_type = "start_to_start"   -> <<predecessor.start_on, successor.start_on>>
      [] dep_type = "finish_to_finish" -> <<predecessor.due_on, successor.due_on>>

\* C8: no generated dependency has its predecessor as its successor.
C8_NoSelfDependency ==
    \A d \in Dependencies : d.predecessor_gid # d.successor_gid

C8_Witness ==
    /\ pc = "deps_done"
    /\ Len(data.task_dependencies) >= 2

\* C9: no unordered pair of tasks appears in two generated dependencies,
\* neither as a second (A, B) nor as the reversed (B, A).
C9_NoPairTwice ==
    \A a, b \in DOMAIN data.task_dependencies :
        a # b =>
          LET x == data.task_dependencies[a]
              y == data.task_dependencies[b]
          IN  {x.predecessor_gid, x.successor_gid}
                # {y.predecessor_gid, y.successor_gid}

\* C10: every generated dependency whose two relevant dates are present keeps
\* its type's date rule, and is_valid_dependency accepts every candidate pair
\* of a pass that lacks one of the two relevant dates.
C10_DateRule ==
    /\ \A d \in Dependencies :
         \A p \in TasksWithGid(d.predecessor_gid) :
         \A q \in TasksWithGid(d.successor_gid) :
            LET dates == RelevantDates(p, q, d.type)
            IN  (dates[1] # Null /\ dates[2] # Null) => dates[1] <= dates[2]
    /\ pc = "deps_attempt" =>
         \A k \in DOMAIN loc.dated_tasks :
            LET dates == RelevantDates(loc.dated_tasks[k],
                                       loc.dated_tasks[loc.s], loc.dep_type)
            IN  (dates[1] = Null \/ dates[2] = Null) =>
                   IsValidDependency(loc.dated_tasks[k], loc.dated_tasks[loc.s],
                                     loc.dep_type)

\* a dependency checked against its dates, one accepted with a date absent,
\* and a pair the date rule has kept out
C10_Witness ==
    /\ pc = "deps_done"
    /\ \E d \in Dependencies :
         \E p \in TasksWithGid(d.predecessor_gid) :
         \E q \in TasksWithGid(d.successor_gid) :
            /\ RelevantDates(p, q, d.type)[1] # Null
            /\ RelevantDates(p, q, d.type)[2] # Null
    /\ \E d \in Dependencies :
         \E p \in TasksWithGid(d.predecessor_gid) :
         \E q \in TasksWithGid(d.successor_gid) :
            RelevantDates(p, q, d.type)[1] = Null
    /\ \E p, q \in Tasks :
         /\ p.workspace_gid = q.workspace_gid
         /\ p.start_on # Null /\ q.start_on # Null
         /\ p.start_on > q.start_on

-----------------------------------------------------------------------------
(* Properties of a pipeline run *)

\* the reference fields: collection, field, the collection referred to
References ==
    { <<"users", "workspace_gid", "workspaces">>,
      <<"workspace_memberships", "workspace_gid", "workspaces">>,
      <<"workspace_memberships", "user_gid", "users">>,
      <<"teams", "workspace_gid", "workspaces">>,
      <<"team_memberships", "team_gid", "teams">>,
      <<"team_memberships", "user_gid", "users">>,
      <<"portfolios", "owner_gid", "users">>,
      <<"goals", "owner_gid", "users">>,
      <<"projects", "team_gid", "teams">>,
      <<"projects", "owner_gid", "users">>,
      <<"project_templates", "team_gid", "teams">>,
      <<"sections", "project_gid", "projects">>,
      <<"project_briefs", "project_gid", "projects">>,
      <<"tasks", "assignee_gid", "users">>,
      <<"tasks", "parent_task_gid", "tasks">>,
      <<"task_project_memberships", "task_gid", "tasks">>,
      <<"task_project_memberships", "project_gid", "projects">>,
      <<"task_project_memberships", "section_gid", "sections">>,
      <<"stories", "task_gid", "tasks">>,
      <<"stories", "created_by_gid", "users">>,
      <<"attachments", "parent_task_gid", "tasks">>,
      <<"attachments", "parent_brief_gid", "project_briefs">>,
      <<"attachments", "created_by_gid", "users">>,
      <<"tags", "workspace_gid", "workspaces">>,
      <<"task_tags", "task_gid", "tasks">>,
      <<"task_tags", "tag_gid", "tags">>,
      <<"task_dependencies", "predecessor_gid", "tasks">>,
      <<"task_dependencies", "successor_gid", "tasks">>,
      <<"task_followers", "task_gid", "tasks">>,
      <<"task_followers", "user_gid", "users">>,
      <<"likes", "user_gid", "users">>,
      <<"likes", "task_gid", "tasks">>,
      <<"likes", "story_gid", "stories">>,
      <<"custom_field_options", "field_gid", "custom_field_definitions">>,
      <<"project_custom_field_settings", "project_gid", "projects">>,
      <<"project_custom_field_settings", "custom_field_gid", "custom_field_definitions">>,
      <<"portfolio_custom_field_settings", "portfolio_gid", "portfolios">>,
      <<"portfolio_custom_field_settings", "custom_field_gid", "custom_field_definitions">>,
      <<"custom_field_values", "task_gid", "tasks">>,
      <<"custom_field_values", "field_gid", "custom_field_definitions">>,
      <<"custom_field_values", "enum_option_gid", "custom_field_options">>,
      <<"portfolio_custom_field_values", "portfolio_gid", "portfolios">>,
      <<"portfolio_custom_field_values", "field_gid", "custom_field_definitions">>,
      <<"portfolio_custom_field_values", "enum_option_gid", "custom_field_options">>,
      <<"status_updates", "author_gid", "users">>,
      <<"status_updates", "parent_project_gid", "projects">>,
      <<"status_updates", "parent_portfolio_gid", "portfolios">>,
      <<"status_updates", "parent_goal_gid", "goals">>,
      <<"portfolio_items", "portfolio_gid", "portfolios">>,
      <<"portfolio_items", "linked_project_gid", "projects">>,
      <<"portfolio_items", "linked_portfolio_gid", "portfolios">> }

\* the workspace a record is in: its gid for a workspace, none for a record
\* that carries no workspace_gid
WorkspaceOf(collection, record) ==
    IF collection = "workspaces" THEN record.gid
    ELSE IF "workspace_gid" \in DOMAIN record THEN record.workspace_gid
    ELSE Null

\* the record has the gid and, where both sides carry a workspace, shares it
Resolves(ref, record, target) ==
    /\ target.gid = record[ref[2]]
    /\ \/ ref[2] = "workspace_gid"
       \/ WorkspaceOf(ref[1], record) = Null
       \/ WorkspaceOf(ref[3], target) = Null
       \/ WorkspaceOf(ref[1], record) = WorkspaceOf(ref[3], target)

\* C4: every reference field that is not null names a record that exists in
\* the collection it refers to, and the two records are in the same workspace
\* where both carry one.
C4_ReferentialClosure ==
    \A ref \in References :
        \A record \in Range(data[ref[1]]) :
            record[ref[2]] # Null =>
                \E target \in Range(data[ref[3]]) : Resolves(ref, record, target)

\* a finished run in which every reference field is set in some record and
\* the second workspace has an owned portfolio
C4_Witness ==
    /\ pc = "main_done"
    /\ \A ref \in References :
          \E record \in Range(data[ref[1]]) : record[ref[2]] # Null
    /\ \E portfolio \in Range(data.portfolios) :
          /\ portfolio.workspace_gid = data.workspaces[2].gid
          /\ portfolio.owner_gid # Null

-----------------------------------------------------------------------------
(* utils/base.py: the seeded stream and generate_gid, over two runs of the
   program *)

\* the gids uuid4 can give
MaxGid == 3

\* the company names get_random_company_name chooses from
CompanyNames == 4

\* the value the generator seeded with `seed` gives at a position of its
\* stream: a function of the two and of nothing else
SeededDraw(seed, position) == (seed * 3 + position * 5) % CompanyNames

\* uuid.uuid4() reads the entropy of the operating system, whatever the seed
\* of random: any gid this run has not used
Uuid4(used) == (1..MaxGid) \ used

\* the seeds SEED is read from
Seeds == {42, 43}

\* one pass of the loop of generate_workspaces in the running process
RunGenerateWorkspace ==
    /\ pc \in {"first_run", "second_run"}
    /\ LET run == IF pc = "first_run" THEN "first" ELSE "second"
           seed == cfg.seed[run]
       IN  /\ Len(data[run]) < cfg.workspaces
           /\ \E gid \in Uuid4({ w.gid : w \in Range(data[run]) }) :
                 data' = [data EXCEPT ![run] = Append(@,
                             [gid |-> gid,
                              name |-> SeededDraw(seed, loc.position),
                              created_at |-> FormatTimestamp(HISTORY_START - 30 * Day)])]
           /\ loc' = [loc EXCEPT !.position = @ + 1]
    /\ UNCHANGED <<pc, scope, cfg, nextGid, err>>

\* the process ends; the next one imports utils.base, which seeds the stream
RunEnd ==
    /\ pc \in {"first_run", "second_run"}
    /\ Len(data[IF pc = "first_run" THEN "first" ELSE "second"]) = cfg.workspaces
    /\ pc' = IF pc = "first_run" THEN "second_run" ELSE "runs_done"
    /\ loc' = [loc EXCEPT !.position = 0]
    /\ UNCHANGED <<scope, cfg, data, nextGid, err>>

InitRuns ==
    /\ pc = "first_run"
    /\ scope = {}
    /\ cfg \in [seed : [{"first", "second"} -> Seeds], workspaces : {2}]
    /\ data = [first |-> <<>>, second |-> <<>>]
    /\ loc = [position |-> 0]
    /\ nextGid = 0
    /\ err = "none"

NextRuns == RunGenerateWorkspace \/ RunEnd

SpecRuns == InitRuns /\ [][NextRuns]_vars

\* C11: two runs with the same seed and configuration give identical
\* collections, every gid included.
C11_SameSeedSameOutput ==
    (pc = "runs_done" /\ cfg.seed["first"] = cfg.seed["second"]) =>
        data["first"] = data["second"]

-----------------------------------------------------------------------------
(* Properties of generate_users *)

\* C12: the users generate_users returns have pairwise distinct emails.
C12_DistinctEmails ==
    \A i, j \in DOMAIN data.users :
        i # j => data.users[i].email # data.users[j].email

\* users were generated, and one drew a name whose email was taken and got
\* a numbered one
C12_Witness ==
    /\ pc = "generate_teams"
    /\ \E i, j \in DOMAIN data.users :
          /\ i < j
          /\ \E name \in FullNames :
                /\ data.users[i].email = Email(name, 0, data.workspaces[1].domain)
                /\ \E suffix \in 1..9 :
                      data.users[j].email = Email(name, suffix, data.workspaces[1].domain)

-----------------------------------------------------------------------------
(* Properties of generate_custom_field_values *)

\* C13: every custom-field value is for a field attached to the project of
\* the task's membership row, fills the one column of the field's type, and
\* an enum option is one of the field's own.
C13_ValueMatchesField ==
    \A value \in Range(data.custom_field_values) :
        /\ \E m \in Range(data.task_project_memberships) :
              /\ m.task_gid = value.task_gid
              /\ \E setting \in Range(data.project_custom_field_settings) :
                    /\ setting.project_gid = m.project_gid
                    /\ setting.custom_field_gid = value.field_gid
        /\ \E field \in Range(data.custom_field_definitions) :
              /\ field.gid = value.field_gid
              /\ { column \in {"text_value", "number_value", "enum_option_gid"} :
                      value[column] # Null } =
                    { CASE field.resource_subtype = "text" -> "text_value"
                        [] field.resource_subtype = "number" -> "number_value"
                        [] OTHER -> "enum_option_gid" }
        /\ value.enum_option_gid # Null =>
              \E option \in Range(data.custom_field_options) :
                  /\ option.gid = value.enum_option_gid
                  /\ option.field_gid = value.field_gid

\* values were generated, an enum option and a number among them
C13_Witness ==
    /\ pc = "generate_portfolio_custom_field_values"
    /\ \E value \in Range(data.custom_field_values) : value.enum_option_gid # Null
    /\ \E value \in Range(data.custom_field_values) : value.number_value # Null

-----------------------------------------------------------------------------
(* main.py: insert_records, called twice with the same batch on a table
   keyed by gid *)

\* the records of a batch at most
MaxBatch == 3

\* mutant: no exception is caught
HandledNone(error) == FALSE

\* except sqlite3.IntegrityError: pass / except Exception: print a warning
Handled(error) == error \in {"IntegrityError", "Exception"}

\* conn.execute(sql, values) on the keyed table: the error it raises
Execute(table, record) ==
    IF \E row \in Range(table) : row.gid = record.gid THEN "IntegrityError" ELSE "none"

\* one pass of for record in records
InsertRecord ==
    /\ pc = "insert_records"
    /\ loc.i <= Len(loc.records)
    /\ LET record == loc.records[loc.i]
           error == Execute(data.table, record)
       IN  IF error = "none"
           THEN /\ data' = [data EXCEPT !.table = Append(@, record)]
                /\ loc' = [loc EXCEPT !.i = @ + 1, !.attempted = @ + 1]
                /\ UNCHANGED <<pc, err>>
           ELSE IF Handled(error)
           THEN /\ loc' = [loc EXCEPT !.i = @ + 1, !.attempted = @ + 1]
                /\ UNCHANGED <<pc, data, err>>
           ELSE /\ err' = error
                /\ pc' = "raised"
                /\ UNCHANGED <<data, loc>>
    /\ UNCHANGED <<scope, cfg, nextGid>>

\* conn.commit() and the return; the caller then hands the batch over again
InsertCommit ==
    /\ pc = "insert_records"
    /\ loc.i > Len(loc.records) \/ loc.records = <<>>
    /\ IF loc.call = 1
       THEN /\ loc' = [loc EXCEPT !.call = 2, !.i = 1, !.attempted = 0,
                                  !.first_table = data.table,
                                  !.first_attempted = loc.attempted]
            /\ pc' = pc
       ELSE /\ loc' = loc
            /\ pc' = "insert_done"
    /\ UNCHANGED <<scope, cfg, data, nextGid, err>>

InitInsert ==
    /\ pc = "insert_records"
    /\ scope = {}
    /\ cfg = [batch |-> MaxBatch]
    /\ data = [table |-> <<>>]
    /\ \E n \in 0..MaxBatch :
       \E records \in [1..n -> [gid : 1..2, name : 1..2]] :
          loc = [records |-> records, i |-> 1, call |-> 1, attempted |-> 0,
                 first_table |-> <<>>, first_attempted |-> 0]
    /\ nextGid = 0
    /\ err = "none"

SpecInsert == InitInsert /\ [][InsertRecord \/ InsertCommit]_vars

\* C14: a duplicate key never ends a batch: no error leaves insert_records,
\* every record of the batch is attempted in each call, and the second call
\* with the same batch leaves the rows as the first call left them.
C14_DuplicatesSkipped ==
    /\ err = "none"
    /\ pc # "raised"
    /\ loc.call = 2 => loc.first_attempted = Len(loc.records)
    /\ pc = "insert_done" =>
          /\ loc.attempted = Len(loc.records)
          /\ data.table = loc.first_table
          /\ \A record \in Range(loc.records) :
                \E row \in Range(data.table) : row.gid = record.gid

\* both calls returned, the batch had two records with one key, and the
\* second call met a conflict on its last record
C14_Witness ==
    /\ pc = "insert_done"
    /\ Len(loc.records) = MaxBatch
    /\ Len(data.table) < Len(loc.records)
    /\ Execute(data.table, loc.records[MaxBatch]) = "IntegrityError"

-----------------------------------------------------------------------------
(* utils/llm_content.py: LLMContentGenerator, its three text functions and
   their template fallbacks.  A text is a sequence of characters; the
   Optional[str] of generate is a sequence of at most one text, <<>> for
   None. *)

\* calls of the text functions in a run at most
MaxCalls == 2

\* str.strip()
RECURSIVE Strip(_)
Strip(text) ==
    IF text = <<>> THEN <<>>
    ELSE IF Head(text) = " " THEN Strip(Tail(text))
    ELSE IF Last(text) = " " THEN Strip(SubSeq(text, 1, Len(text) - 1))
    ELSE text

\* generate: the outcomes of ollama.generate and what generate returns on each
Generate(enabled) ==
    IF ~enabled
    THEN { [raises |-> FALSE, response |-> <<>>, result |-> <<>>] }
    ELSE { [raises |-> TRUE, response |-> <<>>, result |-> <<>>] } \cup
         { [raises |-> FALSE, response |-> response, result |-> << Strip(response) >>] :
           response \in { <<>>, <<" ">>, <<"a">>, <<" ", "a", " ">> } }

\* the texts of the template fallbacks: _generate_description_fallback, and
\* the formatted templates of generate_comment and generate_status_update
Fallback(function, argument) ==
    CASE function = "generate_task_description" ->
            IF argument = "empty" THEN { <<>> }
            ELSE { <<"DESCRIPTION_TEMPLATES", argument, choice>> : choice \in {"1", "2"} }
      [] function = "generate_comment" ->
            { <<"COMMENT_TEMPLATES", choice>> : choice \in {"1", "2"} }
      [] function = "generate_status_update" ->
            { <<"STATUS_UPDATE_TEMPLATES",
                IF argument \in {"on_track", "at_risk", "off_track"}
                THEN argument ELSE "on_track", choice>> : choice \in {"1", "2"} }

\* mutant: if result is not None: return result
TextReturnedNotNone(try_llm, function, argument) ==
    UNION { IF try_llm /\ outcome.result # <<>>
            THEN { [function |-> function, argument |-> argument,
                    raises |-> outcome.raises, response |-> outcome.response,
                    text |-> outcome.result[1]] }
            ELSE { [function |-> function, argument |-> argument,
                    raises |-> outcome.raises, response |-> outcome.response,
                    text |-> text] : text \in Fallback(function, argument) } :
            outcome \in IF try_llm THEN Generate(loc.enabled)
                        ELSE { [raises |-> FALSE, response |-> <<>>, result |-> <<>>] } }

\* if result: return result, else the fallback
TextReturned(try_llm, function, argument) ==
    UNION { IF try_llm /\ outcome.result # <<>> /\ outcome.result[1] # <<>>
            THEN { [function |-> function, argument |-> argument,
                    raises |-> outcome.raises, response |-> outcome.response,
                    text |-> outcome.result[1]] }
            ELSE { [function |-> function, argument |-> argument,
                    raises |-> outcome.raises, response |-> outcome.response,
                    text |-> text] : text \in Fallback(function, argument) } :
            outcome \in IF try_llm THEN Generate(loc.enabled)
                        ELSE { [raises |-> FALSE, response |-> <<>>, result |-> <<>>] } }

\* LLMContentGenerator.__init__: ollama.list() connects or raises
LLMInit ==
    /\ pc = "llm_init"
    /\ \E connects \in BOOLEAN :
          loc' = [enabled |-> cfg.ENABLE_LLM /\ cfg.OLLAMA_AVAILABLE /\ connects,
                  connects |-> connects]
    /\ pc' = "llm_calls"
    /\ UNCHANGED <<scope, cfg, data, nextGid, err>>

GenerateTaskDescription ==
    /\ pc = "llm_calls"
    /\ Len(data.calls) < MaxCalls
    /\ \E complexity \in {"empty", "short", "detailed"} :
       \E call \in TextReturned(loc.enabled /\ complexity # "empty",
                            "generate_task_description", complexity) :
          data' = [data EXCEPT !.calls = Append(@, call)]
    /\ UNCHANGED <<pc, scope, cfg, loc, nextGid, err>>

GenerateComment ==
    /\ pc = "llm_calls"
    /\ Len(data.calls) < MaxCalls
    /\ \E call \in TextReturned(loc.enabled, "generate_comment", "none") :
          data' = [data EXCEPT !.calls = Append(@, call)]
    /\ UNCHANGED <<pc, scope, cfg, loc, nextGid, err>>

GenerateStatusUpdate ==
    /\ pc = "llm_calls"
    /\ Len(data.calls) < MaxCalls
    /\ \E status_type \in {"on_track", "at_risk", "off_track", "complete"} :
       \E call \in TextReturned(loc.enabled, "generate_status_update", status_type) :
          data' = [data EXCEPT !.calls = Append(@, call)]
    /\ UNCHANGED <<pc, scope, cfg, loc, nextGid, err>>

InitText ==
    /\ pc = "llm_init"
    /\ scope = {}
    /\ cfg \in [ENABLE_LLM : BOOLEAN, OLLAMA_AVAILABLE : BOOLEAN]
    /\ data = [calls |-> <<>>]
    /\ loc = [enabled |-> FALSE, connects |-> FALSE]
    /\ nextGid = 0
    /\ err = "none"

SpecText ==
    InitText /\ [][LLMInit \/ GenerateTaskDescription \/ GenerateComment
                   \/ GenerateStatusUpdate]_vars

\* C15: when the backend is disabled, failed its connection test, raised
\* during the call or returned an empty result, each of the three text
\* functions returns a text of its template fallback, and nothing is raised
C15_FallbackOnFailure ==
    pc = "llm_calls" =>
        /\ err = "none"
        /\ \A k \in DOMAIN data.calls :
              LET call == data.calls[k]
              IN  (\/ ~cfg.ENABLE_LLM
                   \/ ~cfg.OLLAMA_AVAILABLE
                   \/ ~loc.connects
                   \/ call.raises
                   \/ call.response = <<>>)
                  => call.text \in Fallback(call.function, call.argument)

\* the backend was enabled and connected; it raised in one call and returned
\* an empty result in another, and both calls returned a template text
C15_Witness ==
    /\ pc = "llm_calls"
    /\ cfg.ENABLE_LLM /\ cfg.OLLAMA_AVAILABLE /\ loc.connects
    /\ Len(data.calls) = MaxCalls
    /\ data.calls[1].raises /\ data.calls[1].function = "generate_comment"
    /\ ~data.calls[2].raises /\ data.calls[2].response = <<>>
    /\ data.calls[2].function = "generate_status_update"
    /\ \A k \in 1..2 : data.calls[k].text \in
                          Fallback(data.calls[k].function, data.calls[k].argument)

-----------------------------------------------------------------------------
(* main.py with VOLUMES["workspaces"] = 0 *)

\* C16: with zero workspaces configured the run is rejected before generation
\* begins: no generator has run, no collection holds a record, and no error
\* is raised from inside a generator
C16_ZeroWorkspacesRejected ==
    cfg.workspaces = 0 =>
        /\ pc = "generate_workspaces"
        /\ data = NoData
        /\ err = "none"

-----------------------------------------------------------------------------
(* utils/base.py: weighted_choice, called on two lists of one length *)

\* the options of a call at most
MaxOptions == 3

\* weighted_choice: the error raised, or the option returned.  sum(weights)
\* of no weight is 0 and nothing is divided; random.choices raises IndexError
\* on an empty population; an option of weight zero is never drawn
WeightedChoice(options, weights) ==
    LET RECURSIVE Sum(_)
        Sum(s) == IF s = <<>> THEN 0 ELSE Head(s) + Sum(Tail(s))
        total == Sum(weights)
    IN  IF weights # <<>> /\ total = 0
        THEN { [error |-> "ZeroDivisionError", value |-> "none"] }
        ELSE IF options = <<>>
        THEN { [error |-> "IndexError", value |-> "none"] }
        ELSE { [error |-> "none", value |-> options[i]] :
               i \in { j \in DOMAIN options : weights[j] > 0 } }

\* one call of weighted_choice
WeightedChoiceCall ==
    /\ pc = "weighted_choice"
    /\ \E result \in WeightedChoice(loc.options, loc.weights) :
          /\ data' = [data EXCEPT !.result = result]
          /\ err' = result.error
    /\ pc' = "choice_done"
    /\ UNCHANGED <<scope, cfg, loc, nextGid>>

InitChoice ==
    /\ pc = "weighted_choice"
    /\ scope = {}
    /\ cfg = [options |-> MaxOptions]
    /\ data = [result |-> [error |-> "none", value |-> "none"]]
    /\ \E n \in 0..MaxOptions :
       \E options \in [1..n -> {"a", "b", "c"}], weights \in [1..n -> 0..2] :
          loc = [options |-> options, weights |-> weights]
    /\ nextGid = 0
    /\ err = "none"

SpecChoice == InitChoice /\ [][WeightedChoiceCall]_vars

\* C17: weighted_choice on an empty options list fails with EmptyDistribution
\* and no other error; on a non-empty list with a positive weight it returns
\* an option whose weight is positive, whatever the weights sum to
C17_EmptyDistribution ==
    pc = "choice_done" =>
        /\ loc.options = <<>> => err = "EmptyDistribution"
        /\ (loc.options # <<>> /\ \E i \in DOMAIN loc.weights : loc.weights[i] > 0) =>
              /\ err = "none"
              /\ \E i \in DOMAIN loc.options :
                    loc.options[i] = data.result.value /\ loc.weights[i] > 0

-----------------------------------------------------------------------------
(* generators/stories.py: generate_stories on the tasks of generate_tasks *)

\* generate_tasks for three tasks, then generate_stories; the creation times
\* of the tasks and the number of stories are explored together
SpecStories ==
    /\ pc = "generate_tasks"
    /\ scope \in { {"time", "story_count"}, {"story_time"}, {"story_authors"},
                   {"story_types"} }
    /\ cfg = [tasks |-> 3, subtask_ratio |-> 50]
    /\ data = UpstreamData
    /\ loc = NoLocals
    /\ nextGid = FirstTaskGid
    /\ err = "none"
    /\ [][GenerateTasks \/ GenerateStories]_vars

\* C18: every story is created at or after its task and at or before NOW
C18_StoryWithinTaskLifetime ==
    pc = "generate_attachments" =>
        \A k \in DOMAIN data.stories : \A j \in DOMAIN data.tasks :
            data.stories[k].task_gid = data.tasks[j].gid =>
                /\ ParseTimestamp(data.tasks[j].created_at)
                       <= ParseTimestamp(data.stories[k].created_at)
                /\ ParseTimestamp(data.stories[k].created_at) <= NOW

-----------------------------------------------------------------------------
(* generators/tasks.py with a project whose due date is a Sunday *)

\* generate_tasks; the first project is due 14 or 17 days after its creation
\* (random.randint(14, 84) of generate_projects), a Thursday or a Sunday
SpecDue ==
    /\ pc = "generate_tasks"
    /\ scope = {"date"}
    /\ cfg = [tasks |-> 3, subtask_ratio |-> 50]
    /\ \E days \in {0, 3} :
          data = [UpstreamData EXCEPT !.projects[1].due_date = @ + days]
    /\ loc = NoLocals
    /\ nextGid = FirstTaskGid
    /\ err = "none"
    /\ [][GenerateTasks]_vars

\* C19: a base task with a due_on in a project with a due_date is due on or
\* before the project's due date
C19_DueWithinProject ==
    pc = "tasks_done" =>
        \A t \in Range(data.tasks), m \in Range(data.task_project_memberships),
           p \in Range(data.projects) :
            (/\ t.parent_task_gid = Null
             /\ m.task_gid = t.gid
             /\ m.project_gid = p.gid
             /\ t.due_on # Null
             /\ p.due_date # Null)
            => t.due_on <= p.due_date

-----------------------------------------------------------------------------
(* generators/tasks.py: the creation time of a base task *)

\* C20: every base task is created at or after the project of its membership
\* row and at or before NOW, and every wave timestamp gives a base task: one
\* that precedes the project's creation is moved to 1..48 hours after it
C20_BaseCreatedWithinProject ==
    Returned =>
        /\ Cardinality(BaseTasks) = loc.num_base_tasks
        /\ \A t \in BaseTasks : \A k \in RowsOfTask(t.gid) :
           \A p \in Range(data.projects) :
              data.task_project_memberships[k].project_gid = p.gid =>
                 /\ ParseTimestamp(p.created_at) <= ParseTimestamp(t.created_at)
                 /\ ParseTimestamp(t.created_at) <= NOW

\* a base task whose wave timestamp preceded its project's creation was
\* created 48 hours after the project
C20_Witness ==
    /\ Returned
    /\ \E i \in 1..loc.num_base_tasks : \E p \in Range(data.projects) :
          /\ data.task_project_memberships[i].task_gid = data.tasks[i].gid
          /\ data.task_project_memberships[i].project_gid = p.gid
          /\ loc.base_creation_times[i] < ParseTimestamp(p.created_at)
          /\ ParseTimestamp(data.tasks[i].created_at)
                = ParseTimestamp(p.created_at) + 48 * Hour

-----------------------------------------------------------------------------
(* utils/base.py: generate_creation_wave, as called by generate_users and
   generate_teams *)

\* C21: the timestamps of a creation wave are in non-decreasing order and lie
\* within [start, end]: every user is created inside [HISTORY_START,
\* HISTORY_END] and every team not later than HISTORY_START
C21_WaveWithinInterval ==
    /\ \A u \in Range(data.users) :
          /\ HISTORY_START <= ParseTimestamp(u.created_at)
          /\ ParseTimestamp(u.created_at) <= HISTORY_END
    /\ \A i, j \in DOMAIN data.teams :
          i <= j => data.teams[i].created_at <= data.teams[j].created_at
    /\ \A t \in Range(data.teams) :
          /\ HISTORY_START - 25 * Day <= ParseTimestamp(t.created_at)
          /\ ParseTimestamp(t.created_at) <= HISTORY_START

-----------------------------------------------------------------------------
(* generators/projects.py: the team and the owner of a project *)

\* C22: the team of a project is a team of the project's workspace; the owner
\* is a member of that team, and is null exactly when the team has no
\* membership row
C22_OwnerFromTeam ==
    \A p \in Range(data.projects) :
        /\ \E t \in Range(data.teams) :
              t.gid = p.team_gid /\ t.workspace_gid = p.workspace_gid
        /\ p.owner_gid = Null <=> MembersByTeam(p.team_gid) = <<>>
        /\ p.owner_gid # Null => p.owner_gid \in Range(MembersByTeam(p.team_gid))

\* generate_projects returned a project of a team without members, owned by
\* nobody, and a project owned by a member of its team
C22_Witness ==
    /\ pc = "generate_project_templates"
    /\ err = "none"
    /\ \E p \in Range(data.projects) :
          p.owner_gid = Null /\ MembersByTeam(p.team_gid) = <<>>
    /\ \E p \in Range(data.projects) :
          p.owner_gid \in Range(MembersByTeam(p.team_gid))

-----------------------------------------------------------------------------
(* generators/tasks.py: the assignee of a task *)

\* generate_tasks on the upstream data, on the same with the first project
\* given to a third team that nobody joined, and on the same with one user
\* only, so that the second workspace has a team and no user
SpecAssign ==
    /\ pc = "generate_tasks"
    /\ scope = {"refs"}
    /\ cfg = [tasks |-> 3, subtask_ratio |-> 50]
    /\ data \in { UpstreamData,
                  [UpstreamData EXCEPT
                     !.teams = Append(@, [@[1] EXCEPT !.gid = 23]),
                     !.projects[1].team_gid = 23,
                     !.projects[1].owner_gid = Null],
                  [UpstreamData EXCEPT
                     !.users = SubSeq(@, 1, 1),
                     !.team_memberships = SubSeq(@, 1, 1),
                     !.projects[2].owner_gid = Null] }
    /\ loc = NoLocals
    /\ nextGid = FirstTaskGid
    /\ err = "none"
    /\ [][GenerateTasks]_vars

\* C23: the assignee of a base task, when not null, is a member of the team
\* of the task's project if that team has a membership row and a user of the
\* task's workspace otherwise; it is null when team and workspace are empty;
\* a subtask is assigned to a member of its parent's team or as its parent
C23_AssigneeFromTeam ==
    Returned =>
        \A t \in Tasks : \A k \in RowsOfTask(t.gid) : \A p \in Range(data.projects) :
           data.task_project_memberships[k].project_gid = p.gid =>
              LET team_members == Range(MembersByTeam(p.team_gid))
                  ws_users == { u.gid : u \in Range(UsersByWorkspace(t.workspace_gid)) }
              IN  IF t.parent_task_gid = Null
                  THEN /\ (t.assignee_gid # Null /\ team_members # {})
                             => t.assignee_gid \in team_members
                       /\ (t.assignee_gid # Null /\ team_members = {})
                             => t.assignee_gid \in ws_users
                       /\ (team_members = {} /\ ws_users = {}) => t.assignee_gid = Null
                  ELSE \A parent \in TasksWithGid(t.parent_task_gid) :
                          t.assignee_gid \in team_members \cup {parent.assignee_gid}

\* the team of the first project has no member: a base task of that project
\* went to a user of the workspace and its subtask to the same user
C23_Witness ==
    /\ Returned
    /\ MembersByTeam(data.projects[1].team_gid) = <<>>
    /\ \E t \in Subtasks : \E parent \in TasksWithGid(t.parent_task_gid) :
          /\ parent.assignee_gid # Null
          /\ t.assignee_gid = parent.assignee_gid
          /\ parent.workspace_gid = data.projects[1].workspace_gid
          /\ \E u \in Range(UsersByWorkspace(parent.workspace_gid)) :
                u.gid = parent.assignee_gid

-----------------------------------------------------------------------------
(* generators/tasks.py: the section of a base task *)

\* C24: in a project that has sections, a completed base task is in the
\* section of highest order_index and one that is not completed is in one of
\* the other sections, or in the only section of the project
C24_SectionFollowsCompletion ==
    Returned =>
        \A t \in BaseTasks : \A k \in RowsOfTask(t.gid) :
           LET row == data.task_project_memberships[k]
               proj_sections == Range(SectionsByProject(row.project_gid))
               last == { x \in proj_sections :
                            \A y \in proj_sections : y.order_index <= x.order_index }
           IN  proj_sections # {} =>
                  IF t.completed = 1
                  THEN row.section_gid \in { x.gid : x \in last }
                  ELSE row.section_gid \in
                          { x.gid : x \in (IF Cardinality(proj_sections) = 1
                                           THEN proj_sections
                                           ELSE proj_sections \ last) }

\* a completed base task in the last section of its project and one that is
\* not completed in the section before it
C24_Witness ==
    /\ Returned
    /\ \E t \in BaseTasks : \E k \in RowsOfTask(t.gid) :
          LET row == data.task_project_memberships[k]
              proj_sections == SectionsByProject(row.project_gid)
          IN  t.completed = 1 /\ row.section_gid = Last(proj_sections).gid
    /\ \E t \in BaseTasks : \E k \in RowsOfTask(t.gid) :
          LET row == data.task_project_memberships[k]
              proj_sections == SectionsByProject(row.project_gid)
          IN  /\ t.completed = 0
              /\ row.section_gid = proj_sections[Len(proj_sections) - 1].gid

-----------------------------------------------------------------------------
(* generators/dependencies.py: the retry loop *)

\* C25: at most 10 candidates are drawn for a successor; no task is the
\* successor of two dependencies; a successor whose 10 candidates were all
\* rejected has no dependency, and no error is raised
C25_BoundedRetry ==
    /\ loc.attempt <= MaxAttempts
    /\ err = "none"
    /\ \A i, j \in DOMAIN data.task_dependencies :
          data.task_dependencies[i].successor_gid
             = data.task_dependencies[j].successor_gid => i = j
    /\ (pc = "deps_successor" /\ loc.attempt = MaxAttempts /\ loc.s > 1) =>
          \A d \in Range(data.task_dependencies) :
             d.successor_gid # loc.dated_tasks[loc.s - 1].gid

\* the 10 candidates of a successor were all rejected after another successor
\* got its dependency, and the function returned
C25_Witness ==
    /\ pc = "deps_done"
    /\ err = "none"
    /\ loc.attempt = MaxAttempts
    /\ data.task_dependencies # <<>>
    /\ \E t \in Range(loc.dated_tasks) :
          \A d \in Range(data.task_dependencies) : d.successor_gid # t.gid

-----------------------------------------------------------------------------
(* generators/dependencies.py: the graph of the dependencies *)

\* C26: following predecessor -> successor edges from a task never leads
\* back to that task
C26_NoCycle ==
    LET edges == { <<d.predecessor_gid, d.successor_gid>> :
                   d \in Range(data.task_dependencies) }
        nodes == { t.gid : t \in Range(data.tasks) }
        Step(from) == { e[2] : e \in { x \in edges : x[1] \in from } }
        RECURSIVE Reach(_, _)
        Reach(from, n) == IF n = 0 THEN from
                          ELSE Reach(from \cup Step(from), n - 1)
    IN  \A t \in nodes : t \notin Reach(Step({t}), Cardinality(nodes))

-----------------------------------------------------------------------------
(* generators/tasks.py: the return of generate_tasks *)

\* C27: with at least one project, generate_tasks raises no error, whatever
\* the total and the subtask ratio
C27_TerminatesNormally ==
    data.projects # <<>> => (err = "none" /\ pc # "raised")

-----------------------------------------------------------------------------
(* generators/portfolio_items.py *)

\* C28: generate_portfolio_items raises no error, whatever the number of
\* projects of a portfolio's workspace; no portfolio links a project twice;
\* every item links a project or another portfolio, never both or neither
C28_PortfolioItemsReturn ==
    /\ err # "ValueError"
    /\ \A i, j \in DOMAIN data.portfolio_items :
          (/\ data.portfolio_items[i].portfolio_gid = data.portfolio_items[j].portfolio_gid
           /\ data.portfolio_items[i].linked_project_gid # Null
           /\ data.portfolio_items[i].linked_project_gid
                 = data.portfolio_items[j].linked_project_gid) => i = j
    /\ \A item \in Range(data.portfolio_items) :
          /\ (item.linked_project_gid = Null) # (item.linked_portfolio_gid = Null)
          /\ item.linked_portfolio_gid # item.portfolio_gid

-----------------------------------------------------------------------------
(* generators/status_updates.py: the updates of a project *)

\* main with one workspace and two projects: the creation times and the
\* current status of the projects are explored with the number of updates
SpecStatus ==
    /\ pc = "generate_workspaces"
    /\ scope = {"project_time", "status", "status_count"}
    /\ cfg = [workspaces |-> 1, users |-> 3, teams |-> 3, portfolios |-> 3,
              goals |-> 2, projects |-> 2, project_templates |-> 1, tasks |-> 3,
              subtask_ratio |-> 50, tags |-> 2]
    /\ data = NoData
    /\ loc = NoLocals
    /\ nextGid = 1
    /\ err = "none"
    /\ [][NextMain]_vars

\* C29: the latest status update of a project that is not archived has the
\* project's current_status; an archived project has no status update
C29_LatestMatchesCurrent ==
    \A p \in Range(data.projects) :
       LET updates == { u \in Range(data.status_updates) : u.parent_project_gid = p.gid }
       IN  /\ p.archived # 0 => updates = {}
           /\ \A u \in updates :
                 (\A v \in updates : v.created_at <= u.created_at)
                    => u.status_type = p.current_status

-----------------------------------------------------------------------------
(* main.py 145-311: the order of the pipeline, and what a generator may
   touch *)

\* the generators in the order main calls them: the positions of a run inside
\* each call, and the collections its result is inserted as
Pipeline ==
    << <<{"generate_workspaces"}, {"workspaces"}>>,
       <<{"generate_users"}, {"users", "workspace_memberships"}>>,
       <<{"generate_teams"}, {"teams"}>>,
       <<{"generate_team_memberships"}, {"team_memberships"}>>,
       <<{"generate_portfolios"}, {"portfolios"}>>,
       <<{"generate_goals"}, {"goals"}>>,
       <<{"generate_projects"}, {"projects"}>>,
       <<{"generate_project_templates"}, {"project_templates"}>>,
       <<{"generate_sections"}, {"sections"}>>,
       <<{"generate_project_briefs"}, {"project_briefs"}>>,
       <<{"generate_tasks", "tasks_phase1", "tasks_phase2",
          "tasks_cleanup"},
         {"tasks", "task_project_memberships"}>>,
       <<{"tasks_done"}, {"stories"}>>,
       <<{"generate_attachments"}, {"attachments"}>>,
       <<{"generate_tags"}, {"tags"}>>,
       <<{"generate_task_tags"}, {"task_tags"}>>,
       <<{"generate_task_dependencies", "deps_workspace",
          "deps_successor", "deps_attempt"},
         {"task_dependencies"}>>,
       <<{"deps_done"}, {"task_followers"}>>,
       <<{"generate_likes"}, {"likes"}>>,
       <<{"generate_custom_field_definitions"},
         {"custom_field_definitions", "custom_field_options"}>>,
       <<{"generate_project_custom_field_settings"},
         {"project_custom_field_settings"}>>,
       <<{"generate_portfolio_custom_field_settings"},
         {"portfolio_custom_field_settings"}>>,
       <<{"generate_custom_field_values"}, {"custom_field_values"}>>,
       <<{"generate_portfolio_custom_field_values"},
         {"portfolio_custom_field_values"}>>,
       <<{"generate_status_updates"}, {"status_updates"}>>,
       <<{"generate_portfolio_items"}, {"portfolio_items"}>>,
       <<{"main_done"}, {}>> >>

\* the place in main of a position of the run; 0 once an exception ended it
Stage(p) ==
    IF p = "raised" THEN 0
    ELSE CHOOSE k \in 1..Len(Pipeline) : p \in Pipeline[k][1]

=============================================================================
